---- MODULE Spec2Model ----
(***************************************************************************)
(* ChatList: the LLM client of network.py (provider classifier, request    *)
(* and response adapters, single-endpoint invoker, fan-out coordinator).   *)
(*                                                                         *)
(* Python values are modelled as follows.                                  *)
(*  - None is the string None_; a credential, a dict key or a name is a   *)
(*    TLA+ string; a text (content, response body, stream fragment) is a   *)
(*    sequence of characters, so that slicing and concatenation are        *)
(*    computed.                                                            *)
(*  - A decoded JSON value is a tagged record [t, v]: dict (a function     *)
(*    from keys to JSON values), list (a sequence), str, int, null.        *)
(*  - The result of evaluating an expression is a JSON value or            *)
(*    Exc(name), the exception the expression raises.                      *)
(*  - A URL is a sequence of tokens; "s in url" is the presence of the     *)
(*    token s, str.lower() maps every token to its lower-case form.        *)
(*  - A message built with an f-string is a record [msg, status, detail]:  *)
(*    the fixed text, the interpolated status and the interpolated detail. *)
(***************************************************************************)
EXTENDS Integers, Sequences, FiniteSets, TLC

(***************************************************************************)
(* Bounds                                                                  *)
(***************************************************************************)
\* longest model list handed to send_to_multiple_models
MaxModels == 3
\* number of send calls made on one LLMClient
MaxCalls == 2
\* longest URL, in tokens, given to detect_provider
MaxUrlLen == 2
\* longest prompt, in characters, given to _build_request_body
MaxPromptLen == 2
\* the calls made on db.py in one run
MaxOps == 4
\* the calls made on the results table in one run
MaxResultOps == 3
\* the sends made in the main window in one run
MaxSends == 2
\* the selections made in the history list in one run
MaxSelects == 1
\* the clicks on favorite checkboxes in one run
MaxToggles == 1
\* the clicks on delete buttons of the settings dialog in one run
MaxClicks == 2
\* the rows added in the settings dialog in one run
MaxAdds == 1

(***************************************************************************)
(* Python and JSON values                                                  *)
(***************************************************************************)
None_ == "<None>"

\* truth value of an Optional[str]: None and "" are falsy
Truthy(s) == s # None_ /\ s # ""

\* a or b
PyOr(a, b) == IF Truthy(a) THEN a ELSE b

Min(a, b) == IF a <= b THEN a ELSE b

JDict(f) == [t |-> "dict", v |-> f]
JList(s) == [t |-> "list", v |-> s]
JStr(s) == [t |-> "str", v |-> s]
JInt(n) == [t |-> "int", v |-> n]
JNull == [t |-> "null", v |-> 0]
Exc(name) == [t |-> "exc", v |-> name]
IsExc(x) == x.t = "exc"

\* {}
EmptyDict == JDict([k \in {} |-> JNull])
\* the default [{}] of data.get("choices", [{}])
ListOfEmptyDict == JList(<<EmptyDict>>)

\* x.get(key, default): only a dict has .get
PyGet(x, key, default) ==
    IF IsExc(x) THEN x
    ELSE IF x.t = "dict"
         THEN IF key \in DOMAIN x.v THEN x.v[key] ELSE default
         ELSE Exc("AttributeError")

\* x[0]
PyIndex0(x) ==
    IF IsExc(x) THEN x
    ELSE CASE x.t = "list" -> IF Len(x.v) > 0 THEN x.v[1] ELSE Exc("IndexError")
           [] x.t = "dict" -> Exc("KeyError")
           [] x.t = "str" -> IF Len(x.v) > 0 THEN JStr(<<x.v[1]>>) ELSE Exc("IndexError")
           [] OTHER -> Exc("TypeError")

(***************************************************************************)
(* Exceptions: the classes the except clauses of network.py name           *)
(***************************************************************************)
\* direct base class of every exception the model raises
BaseOf(e) ==
    CASE e = "ConnectTimeout" -> "TimeoutException"
      [] e = "ReadTimeout" -> "TimeoutException"
      [] e = "TimeoutException" -> "TransportError"
      [] e = "ConnectError" -> "TransportError"
      [] e = "RemoteProtocolError" -> "TransportError"
      [] e = "TransportError" -> "RequestError"
      [] e = "RequestError" -> "Exception"
      [] e = "InvalidURL" -> "Exception"
      [] e = "JSONDecodeError" -> "Exception"
      [] e = "KeyError" -> "Exception"
      [] e = "IndexError" -> "Exception"
      [] e = "AttributeError" -> "Exception"
      [] e = "TypeError" -> "Exception"
      [] OTHER -> "object"

RECURSIVE IsInstance(_, _)
IsInstance(e, cls) ==
    IF e = cls THEN TRUE
    ELSE IF e = "object" THEN FALSE
    ELSE IsInstance(BaseOf(e), cls)

(***************************************************************************)
(* APIProvider, APIResponse                                                *)
(***************************************************************************)
OPENAI == "openai"
ANTHROPIC == "anthropic"
DEEPSEEK == "deepseek"
GROQ == "groq"
CUSTOM == "custom"
APIProvider == {OPENAI, ANTHROPIC, DEEPSEEK, GROQ, CUSTOM}

NoMessage == [msg |-> None_, status |-> 0, detail |-> <<>>]
Message(m, s, d) == [msg |-> m, status |-> s, detail |-> d]

\* APIResponse(success, content, error=None, tokens_used=0)
APIResponse(s, c, e, n) == [success |-> s, content |-> c, error |-> e, tokens_used |-> n]

\* what a call does: return a value or raise
Return(v) == [kind |-> "return", value |-> v, exc |-> None_]
Raise(e) == [kind |-> "raise", value |-> APIResponse(FALSE, JStr(<<>>), NoMessage, JInt(0)), exc |-> e]
NoOutcome == [kind |-> "none", value |-> APIResponse(FALSE, JStr(<<>>), NoMessage, JInt(0)), exc |-> None_]

\* the fixed texts of the error messages (the source writes them in Russian)
MsgParse == "parse error: "
MsgNoKey == "API key not found for provider "
MsgHTTP == "HTTP "
MsgTimeout == "response wait time exceeded"
MsgNetwork == "network error: "
MsgUnknown == "unknown error: "
(***************************************************************************)
(* LLMClient._parse_response                                               *)
(***************************************************************************)
\* the exceptions the except clause of _parse_response catches
ParseCaught(e) == IsInstance(e, "KeyError") \/ IsInstance(e, "IndexError")

ParseContent(provider, data) ==
    IF provider = ANTHROPIC
    THEN PyGet(PyIndex0(PyGet(data, "content", ListOfEmptyDict)), "text", JStr(<<>>))
    ELSE PyGet(PyGet(PyIndex0(PyGet(data, "choices", ListOfEmptyDict)),
                     "message", EmptyDict), "content", JStr(<<>>))

ParseTokensCompletionOnly(provider, data) ==
    PyGet(PyGet(data, "usage", EmptyDict), "completion_tokens", JInt(0))

ParseTokens(provider, data) ==
    IF provider = ANTHROPIC
    THEN PyGet(PyGet(data, "usage", EmptyDict), "output_tokens", JInt(0))
    ELSE PyGet(PyGet(data, "usage", EmptyDict), "completion_tokens", JInt(0))

_parse_response(provider, data) ==
    LET content == ParseContent(provider, data)
        tokens == ParseTokens(provider, data)
        first == IF IsExc(content) THEN content ELSE tokens
    IN  IF IsExc(first)
        THEN IF ParseCaught(first.v)
             THEN Return(APIResponse(FALSE, JStr(<<>>), Message(MsgParse, 0, <<first.v>>), JInt(0)))
             ELSE Raise(first.v)
        ELSE Return(APIResponse(TRUE, content, NoMessage, tokens))

(***************************************************************************)
(* detect_provider, get_api_key                                            *)
(***************************************************************************)
\* str.lower() on one token of a URL
LowerToken(tok) ==
    CASE tok = "OPENAI.COM" -> "openai.com"
      [] tok = "Anthropic.Com" -> "anthropic.com"
      [] tok = "DeepSeek.Com" -> "deepseek.com"
      [] tok = "GROQ.COM" -> "groq.com"
      [] tok = "HTTPS://API." -> "https://api."
      [] OTHER -> tok

Lower(url) == [i \in 1..Len(url) |-> LowerToken(url[i])]

\* needle in text
Contains(text, needle) == \E i \in 1..Len(text) : text[i] = needle

detect_providerNoLower(api_url) ==
    IF Contains(api_url, "openai.com") THEN OPENAI
    ELSE IF Contains(api_url, "anthropic.com") THEN ANTHROPIC
    ELSE IF Contains(api_url, "deepseek.com") THEN DEEPSEEK
    ELSE IF Contains(api_url, "groq.com") THEN GROQ
    ELSE CUSTOM

detect_provider(api_url) ==
    LET url_lower == Lower(api_url)
    IN  IF Contains(url_lower, "openai.com") THEN OPENAI
        ELSE IF Contains(url_lower, "anthropic.com") THEN ANTHROPIC
        ELSE IF Contains(url_lower, "deepseek.com") THEN DEEPSEEK
        ELSE IF Contains(url_lower, "groq.com") THEN GROQ
        ELSE CUSTOM

\* key_mapping: the environment variable of a provider, None_ when it has none
key_mapping(provider) ==
    CASE provider = OPENAI -> "OPENAI_API_KEY"
      [] provider = ANTHROPIC -> "ANTHROPIC_API_KEY"
      [] provider = DEEPSEEK -> "DEEPSEEK_API_KEY"
      [] provider = GROQ -> "GROQ_API_KEY"
      [] OTHER -> None_

EnvVars == {"OPENAI_API_KEY", "ANTHROPIC_API_KEY", "DEEPSEEK_API_KEY", "GROQ_API_KEY"}

\* os.getenv(name) in environment e: None_ for an unset variable
getenv(e, name) == e[name]

get_api_keyCustomFallback(e, provider) ==
    LET env_var == key_mapping(provider)
    IN  IF Truthy(env_var) THEN getenv(e, env_var) ELSE getenv(e, "OPENAI_API_KEY")

get_api_key(e, provider) ==
    LET env_var == key_mapping(provider)
    IN  IF Truthy(env_var) THEN getenv(e, env_var) ELSE None_

(***************************************************************************)
(* LLMClient._get_headers, LLMClient._build_request_body                   *)
(***************************************************************************)
NoHeader == "<absent>"
\* an Authorization header is the pair of "Bearer " and the credential
NoAuthorization == <<>>

_get_headersEnvFirst(custom, e, provider) ==
    LET api_key == PyOr(get_api_key(e, provider), custom)
    IN  IF provider = ANTHROPIC
        THEN [content_type |-> "application/json",
              x_api_key |-> PyOr(api_key, ""),
              anthropic_version |-> "2023-06-01",
              authorization |-> NoAuthorization]
        ELSE [content_type |-> "application/json",
              x_api_key |-> NoHeader,
              anthropic_version |-> NoHeader,
              authorization |-> <<"Bearer ", PyOr(api_key, "")>>]

_get_headersBearerAll(custom, e, provider) ==
    LET api_key == PyOr(custom, get_api_key(e, provider))
    IN  [content_type |-> "application/json",
         x_api_key |-> NoHeader,
         anthropic_version |-> NoHeader,
         authorization |-> <<"Bearer ", PyOr(api_key, "")>>]

_get_headers(custom, e, provider) ==
    LET api_key == PyOr(custom, get_api_key(e, provider))
    IN  IF provider = ANTHROPIC
        THEN [content_type |-> "application/json",
              x_api_key |-> PyOr(api_key, ""),
              anthropic_version |-> "2023-06-01",
              authorization |-> NoAuthorization]
        ELSE [content_type |-> "application/json",
              x_api_key |-> NoHeader,
              anthropic_version |-> NoHeader,
              authorization |-> <<"Bearer ", PyOr(api_key, "")>>]

DefaultMaxTokens == 4096

_build_request_bodySystemFirst(provider, model_id, prompt, max_tokens) ==
    IF provider = ANTHROPIC
    THEN [model |-> model_id, max_tokens |-> max_tokens,
          messages |-> <<[role |-> "user", content |-> prompt]>>]
    ELSE [model |-> model_id,
          messages |-> <<[role |-> "system", content |-> <<>>], [role |-> "user", content |-> prompt]>>,
          max_tokens |-> max_tokens]

_build_request_body(provider, model_id, prompt, max_tokens) ==
    IF provider = ANTHROPIC
    THEN [model |-> model_id, max_tokens |-> max_tokens,
          messages |-> <<[role |-> "user", content |-> prompt]>>]
    ELSE [model |-> model_id,
          messages |-> <<[role |-> "user", content |-> prompt]>>,
          max_tokens |-> max_tokens]

\* the credential a request carries in its headers
HeaderCredential(h) == IF h.authorization = NoAuthorization THEN h.x_api_key ELSE h.authorization[2]

\* the check of send_prompt and send_prompt_streaming for a missing API key
ApiKeyMissingOnlyNone(custom, e, provider) == custom = None_ /\ get_api_key(e, provider) = None_

ApiKeyMissing(custom, e, provider) == ~Truthy(custom) /\ ~Truthy(get_api_key(e, provider))

(***************************************************************************)
(* Inputs: models, environments, endpoint behaviours                       *)
(***************************************************************************)
Model(id, api_url, api_id) == [id |-> id, api_url |-> api_url, api_id |-> api_id]

ModelPool == <<
    Model(1, <<"https://api.", "openai.com", "/v1/chat/completions">>, "gpt-4o"),
    Model(2, <<"https://api.", "anthropic.com", "/v1/messages">>, "claude-3-5-sonnet-20241022"),
    Model(3, <<"HTTPS://API.", "GROQ.COM", "/openai/v1/chat/completions">>, "llama-3.3-70b"),
    Model((0), <<"https://", "openrouter.ai", "/api/v1/chat/completions">>, "openai/gpt-4o") >>

Models == {ModelPool[i] : i \in 1..Len(ModelPool)}

ClientModels == Models \cup {(Model(5, <<"https://api.", "deepseek.com", "/v1/chat/completions">>, "deepseek-chat"))}

Env(openai, anthropic, deepseek, groq) ==
    [n \in EnvVars |->
        CASE n = "OPENAI_API_KEY" -> openai
          [] n = "ANTHROPIC_API_KEY" -> anthropic
          [] n = "DEEPSEEK_API_KEY" -> deepseek
          [] n = "GROQ_API_KEY" -> groq]

\* the environments load_dotenv may leave: nothing set, every key set,
\* one key set to the empty string and one missing
EnvPool == { Env(None_, None_, None_, None_),
             Env("sk-openai", "sk-ant", "sk-deepseek", "gsk"),
             Env("", "sk-ant", None_, None_) }

ThePrompt == <<"h", "i">>

\* a text of n characters
Text(n) == [i \in 1..n |-> IF i % 2 = 0 THEN "a" ELSE "b"]

\* decoded JSON bodies
Dict1(k, x) == JDict([n \in {k} |-> x])
Dict2(k1, x1, k2, x2) == JDict([n \in {k1, k2} |-> IF n = k1 THEN x1 ELSE x2])

Hello == JStr(<<"h", "e", "l", "l", "o">>)
Usage(k, n) == Dict1(k, JInt(n))

BodyOpenAI ==
    Dict2("choices", JList(<<Dict1("message", Dict1("content", Hello))>>),
          "usage", Usage("completion_tokens", 3))
BodyAnthropic ==
    Dict2("content", JList(<<Dict1("text", Hello)>>), "usage", Usage("output_tokens", 5))
BodyEmptyArray == Dict2("choices", JList(<<>>), "content", JList(<<>>))
BodyNullUsage ==
    JDict([n \in {"choices", "content", "usage"} |->
            CASE n = "choices" -> JList(<<Dict1("message", Dict1("content", Hello))>>)
              [] n = "content" -> JList(<<Dict1("text", Hello)>>)
              [] n = "usage" -> JNull])

BodyPool == << BodyOpenAI, BodyAnthropic, (Dict2("choices", JList(<<Dict1("message", Dict1("content", Hello))>>), "content", JList(<<Dict1("text", Hello)>>))), (EmptyDict), BodyEmptyArray,
               (Dict2("choices", JNull, "content", JNull)), (Dict2("choices", Hello, "content", Hello)), (Dict2("choices", EmptyDict, "content", EmptyDict)), (JList(<<>>)), (Dict2("choices", JList(<<Dict1("message", JNull)>>), "content", JList(<<JNull>>))),
               (Dict2("choices", JList(<<Dict1("message", EmptyDict)>>), "content", JList(<<EmptyDict>>))), BodyNullUsage >>

Bodies == {BodyPool[i] : i \in 1..Len(BodyPool)}

\* what an endpoint does with a request
\*   respond: answers with a status, a text and the JSON the text decodes to
\*            (Exc("JSONDecodeError") when it is not JSON)
\*   fail:    the transport fails with exception exc
\*   silent:  never answers
\* the number of characters of an error body that an error message keeps
TruncLen == 200

\* A streamed answer is the sequence of its lines and its tail: "end" when the
\* stream ends after the last line, else the exception reading it raises.
StreamRespond(status, text, lines, tail) ==
    [kind |-> "respond", status |-> status, text |-> text, json |-> Exc("JSONDecodeError"),
     exc |-> None_, lines |-> lines, tail |-> tail]
Respond(status, text, json) ==
    [kind |-> "respond", status |-> status, text |-> text, json |-> json,
     exc |-> None_, lines |-> <<>>, tail |-> "end"]
Fail(exc) ==
    [kind |-> "fail", status |-> 0, text |-> <<>>, json |-> JNull,
     exc |-> exc, lines |-> <<>>, tail |-> "end"]
Silent ==
    [kind |-> "silent", status |-> 0, text |-> <<>>, json |-> JNull,
     exc |-> None_, lines |-> <<>>, tail |-> "end"]

\* one line of a stream: whether it starts with "data: ", and what follows
\* the prefix: the text [DONE], a JSON document, or something json.loads rejects
DataLine(json) == [data |-> TRUE, kind |-> "json", json |-> json]
DoneLine == [data |-> TRUE, kind |-> "done", json |-> JNull]
\* a chunk carrying fragment f in both the OpenAI and the Anthropic place
Delta(f) ==
    Dict2("choices", JList(<<Dict1("delta", Dict1("content", f))>>), "delta", Dict1("text", f))

Frag1 == JStr(<<"h", "e">>)
Frag2 == JStr(<<"y">>)

StreamBehaviours ==
    { StreamRespond(200, <<>>, <<DataLine(Delta(Frag1)), DataLine(Delta(Frag2)), DoneLine>>, "end"),
      StreamRespond(200, <<>>, <<DataLine(Delta(Frag1)), DoneLine, DataLine(Delta(Frag2))>>, "end"),
      StreamRespond(200, <<>>, <<([data |-> FALSE, kind |-> "json", json |-> JNull]), ([data |-> TRUE, kind |-> "bad", json |-> JNull]), DataLine(Delta(JStr(<<>>))), DataLine(Delta(Frag2))>>, "end"),
      StreamRespond(200, <<>>, <<DataLine(Delta(JInt(7))), DataLine(BodyEmptyArray), DataLine(Delta(Frag1))>>, "end"),
      StreamRespond(200, <<>>, <<DataLine(Delta(Frag1))>>, "ReadTimeout"),
      StreamRespond(200, <<>>, <<DataLine(Delta(Frag1))>>, "RemoteProtocolError"),
      StreamRespond(500, Text(5), <<>>, "end"),
      StreamRespond(404, Text(TruncLen + 1), <<>>, "end"),
      Fail("ConnectError"), Fail("ConnectTimeout"), Silent }

Ok200 == Respond(200, Text(2), BodyOpenAI)
Http500 == Respond(500, Text(5), Exc("JSONDecodeError"))
Unreachable == Fail("ConnectError")

\* the endpoint behaviours of a single send_prompt
ClientBehaviours ==
    {Respond(200, Text(2), b) : b \in Bodies}
    \cup {Respond(200, Text(5), Exc("JSONDecodeError"))}
    \cup {Respond(s, Text(n), Exc("JSONDecodeError")) : s \in ({201, 204, 404, 500}), n \in ({0, 5, TruncLen, TruncLen + 1})}
    \cup {Respond(201, Text(2), BodyOpenAI)}
    \cup {Fail("ConnectError"), Fail("ConnectTimeout"), Fail("InvalidURL"), Silent}

(***************************************************************************)
(* db.py: the SQLite database behind get_connection                        *)
(***************************************************************************)
\* the values seed_db inserts where no value exists
DefaultSettings ==
    [k \in ({"theme", "default_author", "request_timeout"}) |->
        CASE k = "theme" -> "dark"
          [] k = "default_author" -> "user"
          [] k = "request_timeout" -> "30"]

\* a Python value sqlite3 cannot bind to a parameter (a list, a dict)
Unbindable == "<unbindable>"

\* what the body of a "with get_connection() as conn" block has done: the
\* database as the connection sees it, and the value returned or the
\* exception raised inside the block
DbResult(d, r) == [db |-> d, ret |-> r]

\* get_connection: commit when the block ends normally; rollback, and raise
\* again, when it raised; close in both cases.  d is the database before.
get_connection(d, body) ==
    IF body.ret.kind = "raise" THEN DbResult(d, body.ret) ELSE body

\* binding a parameter
Binds(x) == x # Unbindable

PromptRow(id, text) == [id |-> id, text |-> text]
ModelRow(id, name) == [id |-> id, name |-> name]
ResultRow(id, prompt_id, model_id, is_selected) ==
    [id |-> id, prompt_id |-> prompt_id, model_id |-> model_id, is_selected |-> is_selected]

Ids(rows) == {r.id : r \in rows}

\* INSERT INTO prompts: text is NOT NULL, id is AUTOINCREMENT
create_promptReuseRowid(d, text) ==
    get_connection(d,
        IF ~Binds(text) THEN DbResult(d, Raise("ProgrammingError"))
        ELSE IF text = None_ THEN DbResult(d, Raise("IntegrityError"))
        ELSE LET used == Ids(d.prompts) \cup {0}
                 id == (CHOOSE m \in used : \A k \in used : k <= m) + 1
             IN  DbResult([d EXCEPT !.prompts = @ \cup {PromptRow(id, text)}, !.prompt_seq = id],
                          Return(id)))

create_prompt(d, text) ==
    get_connection(d,
        IF ~Binds(text) THEN DbResult(d, Raise("ProgrammingError"))
        ELSE IF text = None_ THEN DbResult(d, Raise("IntegrityError"))
        ELSE LET id == d.prompt_seq + 1
             IN  DbResult([d EXCEPT !.prompts = @ \cup {PromptRow(id, text)}, !.prompt_seq = id],
                          Return(id)))

\* SELECT * FROM prompts WHERE id = ?: the Prompt of the row, or None
get_prompt(d, prompt_id) ==
    get_connection(d,
        IF \E r \in d.prompts : r.id = prompt_id
        THEN DbResult(d, Return(CHOOSE r \in d.prompts : r.id = prompt_id))
        ELSE DbResult(d, Return(PromptRow(0, None_))))

\* the value get_prompt and get_model return for None
IsNone(row) == row.id = 0

\* DELETE FROM prompts WHERE id = ?, with ON DELETE CASCADE on results
delete_prompt(d, prompt_id) ==
    get_connection(d,
        DbResult([d EXCEPT !.prompts = {r \in @ : r.id # prompt_id},
                           !.results = {r \in @ : r.prompt_id # prompt_id}],
                 Return(\E r \in d.prompts : r.id = prompt_id)))

\* INSERT INTO models: name is NOT NULL UNIQUE
create_model(d, name) ==
    get_connection(d,
        IF ~Binds(name) THEN DbResult(d, Raise("ProgrammingError"))
        ELSE IF name = None_ \/ (\E r \in d.models : r.name = name)
        THEN DbResult(d, Raise("IntegrityError"))
        ELSE LET id == d.model_seq + 1
             IN  DbResult([d EXCEPT !.models = @ \cup {ModelRow(id, name)}, !.model_seq = id],
                          Return(id)))

get_model(d, model_id) ==
    get_connection(d,
        IF \E r \in d.models : r.id = model_id
        THEN DbResult(d, Return(CHOOSE r \in d.models : r.id = model_id))
        ELSE DbResult(d, Return(ModelRow(0, None_))))

\* DELETE FROM models WHERE id = ?, with ON DELETE CASCADE on results
delete_model(d, model_id) ==
    get_connection(d,
        DbResult([d EXCEPT !.models = {r \in @ : r.id # model_id},
                           !.results = {r \in @ : r.model_id # model_id}],
                 Return(\E r \in d.models : r.id = model_id)))

\* INSERT INTO results under PRAGMA foreign_keys = ON
create_resultNoForeignKeys(d, prompt_id, model_id, is_selected) ==
    get_connection(d,
        LET id == d.result_seq + 1
        IN  DbResult([d EXCEPT !.results = @ \cup {ResultRow(id, prompt_id, model_id, is_selected)},
                               !.result_seq = id],
                     Return(id)))

create_result(d, prompt_id, model_id, is_selected) ==
    get_connection(d,
        IF prompt_id \notin Ids(d.prompts) \/ model_id \notin Ids(d.models)
        THEN DbResult(d, Raise("IntegrityError"))
        ELSE LET id == d.result_seq + 1
             IN  DbResult([d EXCEPT !.results = @ \cup {ResultRow(id, prompt_id, model_id, is_selected)},
                                    !.result_seq = id],
                          Return(id)))

\* SELECT ... FROM results r JOIN models m ... WHERE r.prompt_id = ?
get_results_for_prompt(d, prompt_id) ==
    get_connection(d,
        DbResult(d, Return({r \in d.results : r.prompt_id = prompt_id /\ r.model_id \in Ids(d.models)})))

\* SELECT ... FROM results r JOIN prompts p ... JOIN models m ... WHERE r.is_selected = 1
get_selected_resultsNoFilter(d) ==
    get_connection(d,
        DbResult(d, Return({r \in d.results :
                               r.prompt_id \in Ids(d.prompts) /\ r.model_id \in Ids(d.models)})))

get_selected_results(d) ==
    get_connection(d,
        DbResult(d, Return({r \in d.results :
                               /\ r.is_selected
                               /\ r.prompt_id \in Ids(d.prompts)
                               /\ r.model_id \in Ids(d.models)})))

SetSelection(rows, ids, is_selected) ==
    {IF r.id \in ids THEN [r EXCEPT !.is_selected = is_selected] ELSE r : r \in rows}

\* UPDATE results SET is_selected = ? WHERE id = ?
update_result_selection(d, result_id, is_selected) ==
    get_connection(d,
        DbResult([d EXCEPT !.results = SetSelection(@, {result_id}, is_selected)],
                 Return(result_id \in Ids(d.results))))

\* UPDATE results SET is_selected = ? WHERE id IN (...): returns the row count
update_results_selection(d, result_ids, is_selected) ==
    get_connection(d,
        DbResult([d EXCEPT !.results = SetSelection(@, result_ids, is_selected)],
                 Return(Cardinality(result_ids \cap Ids(d.results)))))

\* DELETE FROM results WHERE id = ?
delete_result(d, result_id) ==
    get_connection(d,
        DbResult([d EXCEPT !.results = {r \in @ : r.id # result_id}],
                 Return(result_id \in Ids(d.results))))

\* INSERT OR REPLACE INTO settings; returns None
set_setting(d, key, value) ==
    get_connection(d,
        IF ~Binds(value) THEN DbResult(d, Raise("ProgrammingError"))
        ELSE DbResult([d EXCEPT !.settings[key] = value], Return(None_)))

\* the Settings object handed to save_settings; str(request_timeout) always binds
Settings(theme, default_author, request_timeout) ==
    [theme |-> theme, default_author |-> default_author, request_timeout |-> request_timeout]

\* three set_setting calls, each with a connection and a transaction of its own
save_settings(d, settings) ==
    LET s1 == set_setting(d, "theme", settings.theme)
        s2 == set_setting(s1.db, "default_author", settings.default_author)
        s3 == set_setting(s2.db, "request_timeout", settings.request_timeout)
    IN  IF s1.ret.kind = "raise" THEN s1
        ELSE IF s2.ret.kind = "raise" THEN s2
        ELSE s3

\* (three of the seeded names, in the order of get_all_models: ORDER BY name)
SeedNames == <<"Claude 3.5 Sonnet (Direct)", "DeepSeek V3 (Direct)", "GPT-4o (Direct)">>

SeededDb(n) ==
    [([prompts |-> {}, prompt_seq |-> 0, models |-> {}, model_seq |-> 0, results |-> {}, result_seq |-> 0, settings |-> DefaultSettings]) EXCEPT !.models = {ModelRow(i, SeedNames[i]) : i \in 1..n}, !.model_seq = n]

\* the user interface before the main window exists
NoUi == <<>>

\* One row of models_table: the model id held by the name item (0 for the
\* None of a row added in the dialog) and the row index r that the lambda of
\* its delete button captured when the row was created.  The position of the
\* row in the table is its position in the sequence, counted from 0.
TableRow(model_id, r) == [model_id |-> model_id, r |-> r]

\* no settings dialog is open
NoDialog == [open |-> FALSE, rows |-> <<>>, clicks |-> 0, adds |-> 0, last |-> ([row |-> 0, model_id |-> 0, reply |-> FALSE])]

\* the ids of a set in ascending order
RECURSIVE Ascending(_)
Ascending(S) ==
    IF S = {} THEN <<>>
    ELSE LET least == CHOOSE m \in S : \A k \in S : m <= k
         IN  <<least>> \o Ascending(S \ {least})

\* SELECT * FROM models ORDER BY name: the ids of the rows, in that order
get_all_models(d) == Ascending(Ids(d.models))

(***************************************************************************)
(* State                                                                   *)
(***************************************************************************)
VARIABLES
    env,             \* the process environment after load_dotenv
    custom_api_key,  \* LLMClient._custom_api_key
    models,          \* the models of the call in progress, one invocation each
    endpoint,        \* endpoint[i]: what the endpoint of models[i] does with a request
    pc,              \* pc[i]: position of invocation i
    resp,            \* resp[i]: what invocation i returned or raised
    requests,        \* requests[i]: the HTTP requests invocation i has issued
    parse_calls,     \* parse_calls[i]: how often invocation i decoded and parsed a body
    pos,             \* pos[i]: lines of the stream invocation i has consumed
    full_content,    \* full_content[i]: the local full_content of send_prompt_streaming
    chunks,          \* chunks[i]: the fragments passed to on_chunk, in order
    gather,          \* state of the await on asyncio.gather
    result,          \* the mapping send_to_multiple_models returns
    calls,           \* number of calls made on the LLMClient
    parse_in,        \* arguments of a direct _parse_response call
    parsed,          \* what that call returned or raised
    op,              \* the operation the caller has invoked
    clients,         \* every httpx.AsyncClient created so far: "open" or "closed"
    client_of,       \* per invocation, the client it opened (0: none)
    call_args,       \* arguments of a direct call of a helper
    call_ret,        \* what the calls made with these arguments returned, in order
    db,              \* the database file
    db_log,          \* the calls a caller has made on db.py, with what each returned
    ui,              \* the main window and its APIWorkers
    dialog           \* the table of the settings dialog

\* the state of the network module, and that of the database and the windows
netvars == << env, custom_api_key, models, endpoint, pc, resp, requests, parse_calls,
              pos, full_content, chunks, gather, result, calls, parse_in, parsed, op,
              clients, client_of, call_args, call_ret >>
appvars == << db, db_log, ui, dialog >>

vars == << netvars, appvars >>

Tasks == 1..Len(models)

EmptyResult == [k \in {} |-> APIResponse(FALSE, JStr(<<>>), NoMessage, JInt(0))]
NoOp == "-"
NoParseIn == [provider |-> OPENAI, data |-> EmptyDict]
NoArgs == <<>>

FailureResponse(message) == APIResponse(FALSE, JStr(<<>>), message, JInt(0))

(***************************************************************************)
(* LLMClient.send_prompt                                                   *)
(***************************************************************************)
\* error_text[:200]
Truncate(text) == SubSeq(text, 1, Min(TruncLen, Len(text)))

\* response.status_code == 200
StatusOK2xx(status) == status \in 200..299

StatusOK(status) == status = 200

\* what "await client.post(...)" can do on an AsyncClient(timeout=self.timeout):
\* a response, an exception of the transport, or the timeout of a silent endpoint
PostOutcomesNoTimeout(b) ==
    CASE b.kind = "respond" -> {b}
      [] b.kind = "fail" -> {b}
      [] OTHER -> {}

PostOutcomes(b) ==
    CASE b.kind = "respond" -> {b}
      [] b.kind = "fail" -> {b}
      [] OTHER -> {Fail("ReadTimeout")}

\* the except clauses of send_prompt, in their order
HandleExceptionGenericFirst(e) ==
    IF IsInstance(e, "Exception") THEN Return(FailureResponse(Message(MsgUnknown, 0, <<e>>)))
    ELSE IF IsInstance(e, "TimeoutException") THEN Return(FailureResponse(Message(MsgTimeout, 0, <<>>)))
    ELSE IF IsInstance(e, "RequestError") THEN Return(FailureResponse(Message(MsgNetwork, 0, <<e>>)))
    ELSE Raise(e)

HandleException(e) ==
    IF IsInstance(e, "TimeoutException") THEN Return(FailureResponse(Message(MsgTimeout, 0, <<>>)))
    ELSE IF IsInstance(e, "RequestError") THEN Return(FailureResponse(Message(MsgNetwork, 0, <<e>>)))
    ELSE IF IsInstance(e, "Exception") THEN Return(FailureResponse(Message(MsgUnknown, 0, <<e>>)))
    ELSE Raise(e)

\* the body of the try block once client.post has returned response r
HandleResponse(provider, r) ==
    IF StatusOK(r.status)
    THEN IF IsExc(r.json)
         THEN HandleException(r.json.v)
         ELSE LET p == _parse_response(provider, r.json)
              IN  IF p.kind = "raise" THEN HandleException(p.exc) ELSE p
    ELSE Return(FailureResponse(Message(MsgHTTP, r.status, Truncate(r.text))))

\* what send_prompt returns or raises once client.post has done o
AfterPost(provider, o) ==
    IF o.kind = "respond" THEN HandleResponse(provider, o) ELSE HandleException(o.exc)

Request(m, headers, body) == [url |-> m.api_url, headers |-> headers, json |-> body]

\* "async with httpx.AsyncClient(timeout=self.timeout) as client": entering
\* the block creates a client of the invocation's own, and leaving it, by a
\* return or by an exception, closes that client
AsyncClientEnter(i) ==
    /\ clients' = Append(clients, "open")
    /\ client_of' = [client_of EXCEPT ![i] = Len(clients) + 1]

AsyncClientExitNoClose(i) == UNCHANGED << clients, client_of >>

AsyncClientExit(i) ==
    /\ clients' = [clients EXCEPT ![client_of[i]] = "closed"]
    /\ UNCHANGED client_of

\* lines 152-166: up to the key check and, with a key, the POST
SendPromptStart(i) ==
    /\ i \in Tasks
    /\ pc[i] = "start"
    /\ LET provider == detect_provider(models[i].api_url)
           headers == _get_headers(custom_api_key, env, provider)
           body == _build_request_body(provider, models[i].api_id, ThePrompt, DefaultMaxTokens)
       IN  IF ApiKeyMissing(custom_api_key, env, provider)
           THEN /\ resp' = [resp EXCEPT ![i] =
                               Return(FailureResponse(Message(MsgNoKey, 0, <<provider>>)))]
                /\ pc' = [pc EXCEPT ![i] = "done"]
                /\ UNCHANGED << requests, clients, client_of >>
           ELSE /\ requests' = [requests EXCEPT ![i] = Append(@, Request(models[i], headers, body))]
                /\ pc' = [pc EXCEPT ![i] = "awaiting"]
                /\ AsyncClientEnter(i)
                /\ UNCHANGED resp
    /\ UNCHANGED << env, custom_api_key, models, endpoint, parse_calls, pos, full_content,
                    chunks, gather, result, calls, parse_in, parsed, op,
                    call_args, call_ret, appvars >>

\* lines 166-199: client.post completes and send_prompt returns
SendPromptCompleteCancelling(i) ==
    /\ i \in Tasks
    /\ pc[i] = "awaiting"
    /\ \E o \in PostOutcomes(endpoint[i]) :
         LET provider == detect_provider(models[i].api_url)
             out == AfterPost(provider, o)
             failed == ~out.value.success
         IN  /\ resp' = [j \in Tasks |->
                            IF j = i THEN out
                            ELSE IF failed /\ pc[j] = "awaiting"
                                 THEN Return(FailureResponse(Message(MsgUnknown, 0, <<"CancelledError">>)))
                                 ELSE resp[j]]
             /\ pc' = [j \in Tasks |-> IF j = i \/ (failed /\ pc[j] = "awaiting") THEN "done" ELSE pc[j]]
             /\ parse_calls' = [parse_calls EXCEPT ![i] =
                                  IF o.kind = "respond" /\ StatusOK(o.status) THEN @ + 1 ELSE @]
    /\ AsyncClientExit(i)
    /\ UNCHANGED << env, custom_api_key, models, endpoint, requests, pos, full_content,
                    chunks, gather, result, calls, parse_in, parsed, op,
                    call_args, call_ret, appvars >>

SendPromptCompleteRetry(i) ==
    /\ i \in Tasks
    /\ pc[i] = "awaiting"
    /\ \E o \in PostOutcomes(endpoint[i]) :
         LET provider == detect_provider(models[i].api_url)
             out == AfterPost(provider, o)
             retry == ~out.value.success /\ Len(requests[i]) < 2
         IN  /\ resp' = [resp EXCEPT ![i] = IF retry THEN @ ELSE out]
             /\ pc' = [pc EXCEPT ![i] = IF retry THEN "awaiting" ELSE "done"]
             /\ requests' = [requests EXCEPT ![i] = IF retry THEN Append(@, @[1]) ELSE @]
             /\ parse_calls' = [parse_calls EXCEPT ![i] =
                                  IF o.kind = "respond" /\ StatusOK(o.status) THEN @ + 1 ELSE @]
             /\ IF retry THEN UNCHANGED << clients, client_of >> ELSE AsyncClientExit(i)
    /\ UNCHANGED << env, custom_api_key, models, endpoint, pos, full_content,
                    chunks, gather, result, calls, parse_in, parsed, op,
                    call_args, call_ret, appvars >>

SendPromptComplete(i) ==
    /\ i \in Tasks
    /\ pc[i] = "awaiting"
    /\ \E o \in PostOutcomes(endpoint[i]) :
         LET provider == detect_provider(models[i].api_url)
         IN  /\ resp' = [resp EXCEPT ![i] = AfterPost(provider, o)]
             /\ pc' = [pc EXCEPT ![i] = "done"]
             /\ parse_calls' = [parse_calls EXCEPT ![i] =
                                  IF o.kind = "respond" /\ StatusOK(o.status) THEN @ + 1 ELSE @]
    /\ AsyncClientExit(i)
    /\ UNCHANGED << env, custom_api_key, models, endpoint, requests, pos, full_content,
                    chunks, gather, result, calls, parse_in, parsed, op,
                    call_args, call_ret, appvars >>

(***************************************************************************)
(* send_to_multiple_models                                                 *)
(***************************************************************************)
\* the last position of id k in the list of models
LastIndex(ms, k) == CHOOSE i \in 1..Len(ms) : ms[i].id = k /\ \A j \in (i+1)..Len(ms) : ms[j].id # k

\* {model_id: response for model_id, response in results}
BuildResultOnlySuccess(ms, rs) ==
    [k \in {ms[i].id : i \in {j \in 1..Len(ms) : rs[j].value.success}} |-> rs[LastIndex(ms, k)].value]

BuildResultByPosition(ms, rs) == [k \in 1..Len(ms) |-> rs[k].value]

BuildResult(ms, rs) == [k \in {ms[i].id : i \in 1..Len(ms)} |-> rs[LastIndex(ms, k)].value]

\* the invocations gather starts run, in list order, up to their first await
\* before the event loop handles any network event
TaskStart(i) ==
    /\ i \in Tasks
    /\ gather = "pending"
    /\ \A j \in 1..(i-1) : pc[j] # "start"
    /\ SendPromptStart(i)

TaskComplete(i) ==
    /\ i \in Tasks
    /\ gather = "pending"
    /\ \A j \in Tasks : pc[j] # "start"
    /\ SendPromptComplete(i)

AnyRaised == \E i \in Tasks : pc[i] = "done" /\ resp[i].kind = "raise"
AllDone == \A i \in Tasks : pc[i] = "done"

GatherReturnRejectingEmpty ==
    /\ gather = "pending"
    /\ IF AnyRaised THEN TRUE ELSE AllDone
    /\ IF AnyRaised \/ Len(models) = 0
       THEN gather' = "raised" /\ UNCHANGED result
       ELSE gather' = "returned" /\ result' = BuildResult(models, resp)
    /\ UNCHANGED << env, custom_api_key, models, endpoint, pc, resp, requests, parse_calls,
                    pos, full_content, chunks, calls, parse_in, parsed, op,
                    clients, client_of, call_args, call_ret, appvars >>

\* await asyncio.gather(*tasks) and the return statement: gather delivers the
\* list of results when every task is done, or the first exception a task raised
GatherReturn ==
    /\ gather = "pending"
    /\ IF AnyRaised THEN TRUE ELSE AllDone
    /\ IF AnyRaised
       THEN gather' = "raised" /\ UNCHANGED result
       ELSE gather' = "returned" /\ result' = BuildResult(models, resp)
    /\ UNCHANGED << env, custom_api_key, models, endpoint, pc, resp, requests, parse_calls,
                    pos, full_content, chunks, calls, parse_in, parsed, op,
                    clients, client_of, call_args, call_ret, appvars >>

Init ==
    /\ env \in EnvPool
    /\ custom_api_key = None_
    /\ \E n \in 0..MaxModels :
         /\ models \in [1..n -> Models]
         /\ endpoint \in [1..n -> ({Ok200, Http500, Unreachable, Silent})]
         /\ pc = [i \in 1..n |-> "start"]
         /\ resp = [i \in 1..n |-> NoOutcome]
         /\ requests = [i \in 1..n |-> <<>>]
         /\ parse_calls = [i \in 1..n |-> 0]
         /\ pos = [i \in 1..n |-> 0]
         /\ full_content = [i \in 1..n |-> <<>>]
         /\ chunks = [i \in 1..n |-> <<>>]
         /\ client_of = [i \in 1..n |-> 0]
    /\ gather = "pending"
    /\ result = EmptyResult
    /\ calls = 0
    /\ parse_in = NoParseIn
    /\ parsed = NoOutcome
    /\ op = "send_to_multiple_models"
    /\ clients = <<>>
    /\ call_args = NoArgs
    /\ call_ret = <<>>
    /\ db = SeededDb(0) /\ db_log = <<>> /\ ui = NoUi /\ dialog = NoDialog

Next ==
    \/ \E i \in Tasks : TaskStart(i)
    \/ \E i \in Tasks : TaskComplete(i)
    \/ GatherReturn

Spec == Init /\ [][Next]_vars

\* the fan-outs over lists drawn from two models, one whose provider can have a
\* credential and one whose provider has none
InitPair ==
    /\ Init
    /\ env \in {Env(None_, None_, None_, None_), Env("sk-openai", "sk-ant", "sk-deepseek", "gsk")}
    /\ \A i \in Tasks : models[i] \in {ModelPool[1], ModelPool[4]}

SpecPair == InitPair /\ [][Next]_vars

\* the event loop runs every ready task, and every awaited network operation
\* ends with a response, an error or the client's timeout
FairSpec ==
    /\ SpecPair
    /\ \A i \in 1..MaxModels : WF_vars(TaskStart(i)) /\ WF_vars(TaskComplete(i))
    /\ WF_vars(GatherReturn)

(***************************************************************************)
(* _parse_response applied to every provider kind and body                 *)
(***************************************************************************)
ParseResponse ==
    /\ parsed.kind = "none"
    /\ parsed' = _parse_response(parse_in.provider, parse_in.data)
    /\ UNCHANGED << env, custom_api_key, models, endpoint, pc, resp, requests, parse_calls,
                    pos, full_content, chunks, gather, result, calls, parse_in, op,
                    clients, client_of, call_args, call_ret, appvars >>

InitParse ==
    /\ env \in EnvPool
    /\ custom_api_key = None_
    /\ models = <<>> /\ endpoint = <<>> /\ pc = <<>> /\ resp = <<>> /\ requests = <<>>
    /\ parse_calls = <<>> /\ pos = <<>> /\ full_content = <<>> /\ chunks = <<>>
    /\ gather = "pending"
    /\ result = EmptyResult
    /\ calls = 0
    /\ parse_in \in [provider : APIProvider, data : Bodies]
    /\ parsed = NoOutcome
    /\ op = "_parse_response"
    /\ clients = <<>> /\ client_of = <<>>
    /\ call_args = NoArgs
    /\ call_ret = <<>>
    /\ db = SeededDb(0) /\ db_log = <<>> /\ ui = NoUi /\ dialog = NoDialog

NextParse == ParseResponse

SpecParse == InitParse /\ [][NextParse]_vars

(***************************************************************************)
(* LLMClient.send_prompt_streaming                                         *)
(***************************************************************************)
\* the except clauses of send_prompt_streaming; content is full_content
HandleStreamException(e, content) ==
    IF IsInstance(e, "TimeoutException")
    THEN Return(APIResponse(FALSE, JStr(content), Message(MsgTimeout, 0, <<>>), JInt(0)))
    ELSE IF IsInstance(e, "Exception")
    THEN Return(APIResponse(FALSE, JStr(content), Message(("error: "), 0, <<e>>), JInt(0)))
    ELSE Raise(e)

\* the delta of one decoded chunk
StreamDelta(provider, data) ==
    IF provider = ANTHROPIC
    THEN PyGet(PyGet(data, "delta", EmptyDict), "text", JStr(<<>>))
    ELSE PyGet(PyGet(PyIndex0(PyGet(data, "choices", ListOfEmptyDict)), "delta", EmptyDict),
               "content", JStr(<<>>))

\* the fragment a line adds to full_content and passes to on_chunk: <<>> when
\* it adds none (no "data: " prefix, undecodable, no delta, or an exception
\* that the bare except swallows)
LineFragment(provider, line) ==
    IF ~line.data \/ line.kind # "json" THEN <<>>
    ELSE LET delta == StreamDelta(provider, line.json)
         IN  IF IsExc(delta) THEN <<>>
             ELSE IF delta.t = "str" THEN delta.v
             ELSE <<>>

StreamBody(body) ==
    [model |-> body.model, messages |-> body.messages, max_tokens |-> body.max_tokens,
     stream |-> TRUE]

\* lines 209-230: up to the key check and, with a key, the streamed POST
StreamStart(i) ==
    /\ i \in Tasks
    /\ pc[i] = "stream_start"
    /\ LET provider == detect_provider(models[i].api_url)
           headers == _get_headers(custom_api_key, env, provider)
           body == StreamBody(_build_request_body(provider, models[i].api_id, ThePrompt,
                                                  DefaultMaxTokens))
       IN  IF ApiKeyMissing(custom_api_key, env, provider)
           THEN /\ resp' = [resp EXCEPT ![i] =
                               Return(FailureResponse(Message(MsgNoKey, 0, <<provider>>)))]
                /\ pc' = [pc EXCEPT ![i] = "done"]
                /\ UNCHANGED << requests, clients, client_of >>
           ELSE /\ requests' = [requests EXCEPT ![i] = Append(@, Request(models[i], headers, body))]
                /\ pc' = [pc EXCEPT ![i] = "stream_open"]
                /\ AsyncClientEnter(i)
                /\ UNCHANGED resp
    /\ UNCHANGED << env, custom_api_key, models, endpoint, parse_calls, pos, full_content,
                    chunks, gather, result, calls, parse_in, parsed, op,
                    call_args, call_ret, appvars >>

\* lines 225-237: the response headers arrive, or opening the stream fails
StreamOpen(i) ==
    /\ i \in Tasks
    /\ pc[i] = "stream_open"
    /\ \E o \in PostOutcomes(endpoint[i]) :
         IF o.kind = "respond"
         THEN IF o.status # 200
              THEN /\ resp' = [resp EXCEPT ![i] =
                                  Return(FailureResponse(Message(MsgHTTP, o.status, Truncate(o.text))))]
                   /\ pc' = [pc EXCEPT ![i] = "done"]
                   /\ AsyncClientExit(i)
              ELSE /\ pc' = [pc EXCEPT ![i] = "streaming"]
                   /\ UNCHANGED << resp, clients, client_of >>
         ELSE /\ resp' = [resp EXCEPT ![i] = HandleStreamException(o.exc, full_content[i])]
              /\ pc' = [pc EXCEPT ![i] = "done"]
              /\ AsyncClientExit(i)
    /\ UNCHANGED << env, custom_api_key, models, endpoint, requests, parse_calls, pos,
                    full_content, chunks, gather, result, calls, parse_in, parsed, op,
                    call_args, call_ret, appvars >>

StreamLineNoBreak(i) ==
    /\ i \in Tasks
    /\ pc[i] = "streaming"
    /\ LET provider == detect_provider(models[i].api_url)
           lines == endpoint[i].lines
       IN  IF pos[i] < Len(lines)
           THEN LET line == lines[pos[i] + 1]
                    frag == LineFragment(provider, line)
                IN  /\ pos' = [pos EXCEPT ![i] = @ + 1]
                    /\ full_content' = [full_content EXCEPT ![i] = @ \o frag]
                    /\ chunks' = [chunks EXCEPT ![i] = IF frag # <<>> THEN Append(@, frag) ELSE @]
                    /\ UNCHANGED << resp, pc, clients, client_of >>
           ELSE /\ resp' = [resp EXCEPT ![i] =
                               IF endpoint[i].tail = "end"
                               THEN Return(APIResponse(TRUE, JStr(full_content[i]), NoMessage, JInt(0)))
                               ELSE HandleStreamException(endpoint[i].tail, full_content[i])]
                /\ pc' = [pc EXCEPT ![i] = "done"]
                /\ AsyncClientExit(i)
                /\ UNCHANGED << pos, full_content, chunks >>
    /\ UNCHANGED << env, custom_api_key, models, endpoint, requests, parse_calls,
                    gather, result, calls, parse_in, parsed, op,
                    call_args, call_ret, appvars >>

\* lines 239-275: one turn of "async for line in response.aiter_lines()":
\* the next line, the end of the stream, or an exception reading it
StreamLine(i) ==
    /\ i \in Tasks
    /\ pc[i] = "streaming"
    /\ LET provider == detect_provider(models[i].api_url)
           lines == endpoint[i].lines
       IN  IF pos[i] < Len(lines)
           THEN LET line == lines[pos[i] + 1]
                    frag == LineFragment(provider, line)
                IN  /\ pos' = [pos EXCEPT ![i] = @ + 1]
                    /\ IF line.data /\ line.kind = "done"
                       THEN /\ resp' = [resp EXCEPT ![i] =
                                   Return(APIResponse(TRUE, JStr(full_content[i]), NoMessage, JInt(0)))]
                            /\ pc' = [pc EXCEPT ![i] = "done"]
                            /\ AsyncClientExit(i)
                            /\ UNCHANGED << full_content, chunks >>
                       ELSE /\ full_content' = [full_content EXCEPT ![i] = @ \o frag]
                            /\ chunks' = [chunks EXCEPT ![i] =
                                            IF frag # <<>> THEN Append(@, frag) ELSE @]
                            /\ UNCHANGED << resp, pc, clients, client_of >>
           ELSE /\ resp' = [resp EXCEPT ![i] =
                               IF endpoint[i].tail = "end"
                               THEN Return(APIResponse(TRUE, JStr(full_content[i]), NoMessage, JInt(0)))
                               ELSE HandleStreamException(endpoint[i].tail, full_content[i])]
                /\ pc' = [pc EXCEPT ![i] = "done"]
                /\ AsyncClientExit(i)
                /\ UNCHANGED << pos, full_content, chunks >>
    /\ UNCHANGED << env, custom_api_key, models, endpoint, requests, parse_calls,
                    gather, result, calls, parse_in, parsed, op,
                    call_args, call_ret, appvars >>

(***************************************************************************)
(* One LLMClient used directly: set_custom_api_key, send_prompt,           *)
(* send_prompt_streaming                                                   *)
(***************************************************************************)
CustomKeys == {"", "sk-custom"}

\* no call is in progress on the client
Idle == IF Len(pc) = 0 THEN TRUE ELSE pc[1] = "done"

set_custom_api_key(api_key) ==
    /\ Idle
    /\ custom_api_key' = api_key
    /\ UNCHANGED << env, models, endpoint, pc, resp, requests, parse_calls, pos,
                    full_content, chunks, gather, result, calls, parse_in, parsed, op,
                    clients, client_of, call_args, call_ret, appvars >>

\* a caller enters send_prompt (entry = "start") or send_prompt_streaming
\* (entry = "stream_start") with model m, whose endpoint behaves as b
Call(m, b, entry) ==
    /\ Idle
    /\ calls < MaxCalls
    /\ calls' = calls + 1
    /\ models' = <<m>>
    /\ endpoint' = <<b>>
    /\ pc' = <<entry>>
    /\ resp' = <<NoOutcome>>
    /\ requests' = << <<>> >>
    /\ parse_calls' = <<0>>
    /\ pos' = <<0>>
    /\ full_content' = << <<>> >>
    /\ chunks' = << <<>> >>
    /\ op' = IF entry = "start" THEN "send_prompt" ELSE "send_prompt_streaming"
    /\ client_of' = <<0>>
    /\ UNCHANGED << env, custom_api_key, gather, result, parse_in, parsed,
                    clients, call_args, call_ret, appvars >>

InitClient ==
    /\ env \in EnvPool
    /\ custom_api_key = None_
    /\ models = <<>> /\ endpoint = <<>> /\ pc = <<>> /\ resp = <<>> /\ requests = <<>>
    /\ parse_calls = <<>> /\ pos = <<>> /\ full_content = <<>> /\ chunks = <<>>
    /\ gather = "pending"
    /\ result = EmptyResult
    /\ calls = 0
    /\ parse_in = NoParseIn
    /\ parsed = NoOutcome
    /\ op = NoOp
    /\ clients = <<>> /\ client_of = <<>>
    /\ call_args = NoArgs
    /\ call_ret = <<>>
    /\ db = SeededDb(0) /\ db_log = <<>> /\ ui = NoUi /\ dialog = NoDialog

NextClient ==
    \/ \E k \in CustomKeys : set_custom_api_key(k)
    \/ (\E m \in ClientModels, b \in ClientBehaviours : Call(m, b, "start"))
    \/ (\E m \in ClientModels, b \in StreamBehaviours : Call(m, b, "stream_start"))
    \/ SendPromptStart(1)
    \/ SendPromptComplete(1)
    \/ StreamStart(1)
    \/ StreamOpen(1)
    \/ StreamLine(1)

SpecClient == InitClient /\ [][NextClient]_vars

(***************************************************************************)
(* detect_provider applied to URLs                                         *)
(***************************************************************************)
\* no helper is being called
NoCallState ==
    /\ custom_api_key = None_
    /\ models = <<>> /\ endpoint = <<>> /\ pc = <<>> /\ resp = <<>> /\ requests = <<>>
    /\ parse_calls = <<>> /\ pos = <<>> /\ full_content = <<>> /\ chunks = <<>>
    /\ gather = "pending"
    /\ result = EmptyResult
    /\ calls = 0
    /\ parse_in = NoParseIn
    /\ parsed = NoOutcome
    /\ clients = <<>> /\ client_of = <<>>
    /\ call_ret = <<>>
    /\ db = SeededDb(0) /\ db_log = <<>> /\ ui = NoUi /\ dialog = NoDialog

\* one more call of detect_provider with the same URL
DetectProvider ==
    /\ op = "detect_provider"
    /\ Len(call_ret) < MaxCalls
    /\ call_ret' = Append(call_ret, Return(detect_provider(call_args)))
    /\ UNCHANGED << env, custom_api_key, models, endpoint, pc, resp, requests, parse_calls,
                    pos, full_content, chunks, gather, result, calls, parse_in, parsed, op,
                    clients, client_of, call_args, appvars >>

InitDetect ==
    /\ NoCallState
    /\ env = Env(None_, None_, None_, None_)
    /\ call_args \in (UNION {[1..n -> ({"https://api.", "HTTPS://API.", "openai.com", "OPENAI.COM", "anthropic.com", "Anthropic.Com", "deepseek.com", "DeepSeek.Com", "groq.com", "GROQ.COM", "openrouter.ai", "/v1"})] : n \in 0..MaxUrlLen})
    /\ op = "detect_provider"

NextDetect == DetectProvider

SpecDetect == InitDetect /\ [][NextDetect]_vars

(***************************************************************************)
(* LLMClient._get_headers called on a client whose override key is set     *)
(* and reset                                                               *)
(***************************************************************************)
\* self._get_headers(provider): call_args keeps the provider and the override
\* key the client held when it was called
GetHeaders ==
    /\ op = "_get_headers"
    /\ Len(call_ret) = 0
    /\ \E provider \in APIProvider :
         /\ call_args' = [provider |-> provider, custom_api_key |-> custom_api_key]
         /\ call_ret' = <<Return(_get_headers(custom_api_key, env, provider))>>
    /\ UNCHANGED << env, custom_api_key, models, endpoint, pc, resp, requests, parse_calls,
                    pos, full_content, chunks, gather, result, calls, parse_in, parsed, op,
                    clients, client_of, appvars >>

InitHeaders ==
    /\ NoCallState
    /\ env \in EnvPool
    /\ call_args = NoArgs
    /\ op = "_get_headers"

NextHeaders ==
    \/ \E k \in CustomKeys : set_custom_api_key(k)
    \/ GetHeaders

SpecHeaders == InitHeaders /\ [][NextHeaders]_vars

(***************************************************************************)
(* LLMClient._build_request_body applied to every provider kind, model     *)
(* identifier, prompt and max_tokens argument                              *)
(***************************************************************************)
BuildRequestBody ==
    /\ op = "_build_request_body"
    /\ Len(call_ret) = 0
    /\ LET max_tokens == IF call_args.max_tokens = <<>> THEN DefaultMaxTokens
                         ELSE call_args.max_tokens[1]
       IN  call_ret' = <<Return(_build_request_body(call_args.provider, call_args.model_id,
                                                     call_args.prompt, max_tokens))>>
    /\ UNCHANGED << env, custom_api_key, models, endpoint, pc, resp, requests, parse_calls,
                    pos, full_content, chunks, gather, result, calls, parse_in, parsed, op,
                    clients, client_of, call_args, appvars >>

InitBody ==
    /\ NoCallState
    /\ env = Env(None_, None_, None_, None_)
    /\ call_args \in [provider : APIProvider, model_id : ({m.api_id : m \in ClientModels}), prompt : (UNION {[1..n -> ({"h", "i"})] : n \in 0..MaxPromptLen}),
                       max_tokens : ({<<>>, <<1>>, <<8192>>})]
    /\ op = "_build_request_body"

NextBody == BuildRequestBody

SpecBody == InitBody /\ [][NextBody]_vars

(***************************************************************************)
(* Properties of send_to_multiple_models (specification Spec)              *)
(***************************************************************************)
DistinctIds == \A i, j \in Tasks : i # j => models[i].id # models[j].id

InputIds == {models[i].id : i \in Tasks}

ProviderOf(i) == detect_provider(models[i].api_url)

\* invocation i has sent its request
Requested(i) == Len(requests[i]) > 0

TimeoutFailure == Return(FailureResponse(Message(MsgTimeout, 0, <<>>)))

\* C1: for every list of models with pairwise distinct ids and every mix of
\* outcomes, send_to_multiple_models returns a mapping whose key set is
\* exactly the set of the input model ids.
C1_KeySetIsInputIds ==
    /\ gather # "raised"
    /\ (gather = "returned" /\ DistinctIds) => DOMAIN result = InputIds

\* C1 witness: a returned fan-out over three distinct ids that mixes a success,
\* an HTTP error and a missing-credential failure
C1_Witness ==
    /\ gather = "returned" /\ DistinctIds /\ Len(models) = 3
    /\ \E i, j, k \in Tasks :
         /\ resp[i].value.success
         /\ resp[j].value.error.msg = MsgHTTP
         /\ resp[k].value.error.msg = MsgNoKey

\* the outcomes invocation i can have by its own model, credential and endpoint
OwnOutcomes(i) ==
    IF ~Truthy(custom_api_key) /\ ~Truthy(get_api_key(env, ProviderOf(i)))
    THEN {Return(FailureResponse(Message(MsgNoKey, 0, <<ProviderOf(i)>>)))}
    ELSE {AfterPost(ProviderOf(i), o) : o \in PostOutcomes(endpoint[i])}

\* a step that moves invocation i leaves every sibling where it was
OnlyOwnStateMoves ==
    \A i \in Tasks :
        (pc'[i] # pc[i] \/ resp'[i] # resp[i])
            => \A j \in Tasks \ {i} : pc'[j] = pc[j] /\ resp'[j] = resp[j]

\* C3: the invocations of a fan-out are independent: the call returns only
\* after every invocation has a terminal outcome; the outcome of an invocation
\* is one its own endpoint produces; a step of one invocation changes no
\* sibling; and an invocation whose request is out can always complete,
\* whatever state its siblings are in.
C3_Independent ==
    /\ [](gather = "returned" => AllDone)
    /\ [](\A i \in Tasks : pc[i] = "done" => resp[i] \in OwnOutcomes(i))
    /\ [](\A i \in Tasks : (pc[i] = "awaiting" /\ \A j \in Tasks : pc[j] # "start")
                              => ENABLED TaskComplete(i))
    /\ [][OnlyOwnStateMoves]_vars

\* C3 witness: one invocation has ended in a timeout while a sibling still
\* awaits its response
C3_Witness ==
    \E i, j \in Tasks :
        /\ pc[i] = "done" /\ resp[i] = TimeoutFailure
        /\ pc[j] = "awaiting" /\ endpoint[j] = Ok200

\* the scenario of three endpoints: a an OpenAI-compatible endpoint answering
\* 200 with a valid body, b answering 500, c refusing the connection
Scenario(a, b, c) ==
    /\ gather = "returned" /\ Len(models) = 3 /\ DistinctIds
    /\ {a, b, c} = Tasks
    /\ endpoint[a] = Ok200 /\ ProviderOf(a) # ANTHROPIC
    /\ endpoint[b] = Http500
    /\ endpoint[c] = Unreachable

ScenarioResult(a, b, c) ==
    /\ Cardinality(DOMAIN result) = 3
    /\ result[models[a].id] = APIResponse(TRUE, Hello, NoMessage, JInt(3))
    /\ ~result[models[b].id].success
    /\ result[models[b].id].error.msg = MsgHTTP /\ result[models[b].id].error.status = 500
    /\ ~result[models[c].id].success
    /\ result[models[c].id].error.msg = MsgNetwork

HasEnvKey(i) == Truthy(get_api_key(env, ProviderOf(i)))

\* C5 as stated: a fan-out over three endpoints, one answering 200 with a
\* valid OpenAI-compatible body, one answering 500 and one unreachable, returns
\* three entries: the success with the parsed content, a failure starting
\* with HTTP 500 and a failure with the network-error message.
C5_Original ==
    \A a, b, c \in Tasks : Scenario(a, b, c) => ScenarioResult(a, b, c)

\* C5 amended: the same, provided the environment holds a non-empty
\* credential for the provider of each of the three endpoints.
C5_Amended ==
    \A a, b, c \in Tasks :
        (Scenario(a, b, c) /\ \A i \in Tasks : HasEnvKey(i)) => ScenarioResult(a, b, c)

\* C5 witness: the scenario has run with a credential for every endpoint
C5_Witness ==
    \E a, b, c \in Tasks :
        /\ Scenario(a, b, c)
        /\ \A i \in Tasks : HasEnvKey(i) /\ Requested(i)

\* C6 as stated: the returned mapping always has as many entries as the input
\* list has models.
C6_Original == gather = "returned" => Cardinality(DOMAIN result) = Len(models)

\* C6 amended: when the ids of the input models are pairwise distinct, the
\* returned mapping has as many entries as the input list has models, and the
\* entry of each model is the outcome of its own invocation.
C6_Amended ==
    (gather = "returned" /\ DistinctIds)
        => /\ Cardinality(DOMAIN result) = Len(models)
           /\ \A i \in Tasks : models[i].id \in DOMAIN result /\ result[models[i].id] = resp[i].value

\* C6 witness: a returned fan-out over three distinct ids in which an
\* endpoint timed out and one refused the connection
C6_Witness ==
    /\ gather = "returned" /\ DistinctIds /\ Len(models) = 3
    /\ \E i, j \in Tasks :
         /\ resp[i] = TimeoutFailure
         /\ resp[j].value.error.msg = MsgNetwork

\* C9: an invocation whose endpoint never responds ends, when the timeout of
\* its client fires, with the timeout failure; and a fan-out whose endpoints
\* respond, fail or time out eventually returns.
C9_TimeoutThenReturn ==
    /\ [](\A i \in Tasks : (pc[i] = "done" /\ Requested(i) /\ endpoint[i] = Silent)
                              => resp[i] = TimeoutFailure)
    /\ <>(gather = "returned")

\* C9 witness: a fan-out has returned although one endpoint it asked never
\* responded
C9_Witness ==
    /\ gather = "returned"
    /\ \E i \in Tasks : endpoint[i] = Silent /\ Requested(i) /\ resp[i] = TimeoutFailure

(***************************************************************************)
(* Properties of _parse_response (SpecParse) and of one client (SpecClient)*)
(***************************************************************************)
\* the body has the field the provider's schema puts the text in
HasContentField(provider, data) ==
    IF provider = ANTHROPIC
    THEN /\ data.t = "dict" /\ "content" \in DOMAIN data.v
         /\ data.v["content"].t = "list" /\ Len(data.v["content"].v) > 0
         /\ data.v["content"].v[1].t = "dict" /\ "text" \in DOMAIN data.v["content"].v[1].v
         /\ data.v["content"].v[1].v["text"].t = "str"
    ELSE /\ data.t = "dict" /\ "choices" \in DOMAIN data.v
         /\ data.v["choices"].t = "list" /\ Len(data.v["choices"].v) > 0
         /\ data.v["choices"].v[1].t = "dict" /\ "message" \in DOMAIN data.v["choices"].v[1].v
         /\ data.v["choices"].v[1].v["message"].t = "dict"
         /\ "content" \in DOMAIN data.v["choices"].v[1].v["message"].v
         /\ data.v["choices"].v[1].v["message"].v["content"].t = "str"

TokenKey(provider) == IF provider = ANTHROPIC THEN "output_tokens" ELSE "completion_tokens"

\* usage is optional; when present it is a dict whose token count, if any, is an int
HasValidUsage(provider, data) ==
    /\ data.t = "dict"
    /\ "usage" \in DOMAIN data.v =>
          /\ data.v["usage"].t = "dict"
          /\ TokenKey(provider) \in DOMAIN data.v["usage"].v
                => data.v["usage"].v[TokenKey(provider)].t = "int"

\* no expected field of the body is missing or malformed
WellFormed(provider, data) == HasContentField(provider, data) /\ HasValidUsage(provider, data)

IsEmptyStr(x) == x.t = "str" /\ x.v = <<>>

\* C7 as stated: for every provider kind and every body in which an expected
\* field is missing or malformed, _parse_response raises nothing and returns a
\* failure with empty content and the parse-error message.
C7_Original ==
    (parsed.kind # "none" /\ ~WellFormed(parse_in.provider, parse_in.data))
        => /\ parsed.kind = "return"
           /\ ~parsed.value.success
           /\ IsEmptyStr(parsed.value.content)
           /\ parsed.value.error.msg = MsgParse

\* send_prompt has returned or raised
SendPromptDone == op = "send_prompt" /\ pc[1] = "done"

TimedOut(b) == b.kind = "silent" \/ (b.kind = "fail" /\ IsInstance(b.exc, "TimeoutException"))
TransportFailed(b) == b.kind = "fail" /\ IsInstance(b.exc, "TransportError") /\ ~TimedOut(b)
SchemaMismatch(provider, b) ==
    /\ b.kind = "respond" /\ b.status = 200
    /\ ~IsExc(b.json)
    /\ ~WellFormed(provider, b.json)

\* the call failed: no credential, no response, a status other than 200, or a
\* 200 whose body is not JSON or not of the provider's shape
FailureMode(i) ==
    \/ ~Requested(i)
    \/ endpoint[i].kind # "respond"
    \/ endpoint[i].status # 200
    \/ IsExc(endpoint[i].json)
    \/ SchemaMismatch(ProviderOf(i), endpoint[i])

\* C2 as stated: send_prompt lets no exception escape, and in every failure
\* mode of the call the response it returns has success=false and a non-empty
\* error message.
C2_Original ==
    SendPromptDone
        => /\ resp[1].kind = "return"
           /\ FailureMode(1) => (~resp[1].value.success /\ resp[1].value.error.msg # None_)

\* C4: with neither an override nor an environment credential, send_prompt
\* and send_prompt_streaming return the failure naming the provider and issue
\* no request; and every request issued carries a non-empty credential.
C4_NoCredentialNoRequest ==
    [][\A i \in 1..Min(Len(pc), Len(pc')) :
        /\ (pc[i] \in {"start", "stream_start"} /\ pc'[i] # pc[i]
              /\ ~Truthy(custom_api_key) /\ ~Truthy(get_api_key(env, ProviderOf(i))))
               => /\ requests'[i] = requests[i]
                  /\ pc'[i] = "done"
                  /\ resp'[i] = Return(FailureResponse(Message(MsgNoKey, 0, <<ProviderOf(i)>>)))
        /\ Len(requests'[i]) > Len(requests[i])
               => /\ pc[i] \in {"start", "stream_start"}
                  /\ Truthy(HeaderCredential(requests'[i][Len(requests'[i])].headers))
                  /\ HeaderCredential(requests'[i][Len(requests'[i])].headers)
                        \in {custom_api_key, get_api_key(env, ProviderOf(i))}
      ]_vars

\* C4 witness: send_prompt_streaming, on a client whose override is the empty
\* string, has returned the missing-credential failure without a request
C4_Witness ==
    /\ op = "send_prompt_streaming" /\ pc[1] = "done"
    /\ custom_api_key = ""
    /\ ~Requested(1)
    /\ resp[1].value.error.msg = MsgNoKey

\* C8: send_prompt parses the body if and only if the status is exactly 200;
\* every other status yields the failure "HTTP <status>: " followed by the
\* first 200 characters of the body, and the body is not parsed.
C8_ParseIffStatus200 ==
    (SendPromptDone /\ Requested(1) /\ endpoint[1].kind = "respond")
        => LET r == endpoint[1]
               n == Min(200, Len(r.text))
           IN  /\ parse_calls[1] = (IF r.status = 200 THEN 1 ELSE 0)
               /\ r.status # 200
                    => /\ ~resp[1].value.success
                       /\ IsEmptyStr(resp[1].value.content)
                       /\ resp[1].value.error = Message(MsgHTTP, r.status, [k \in 1..n |-> r.text[k]])

\* C8 witness: send_prompt has returned for a 201 response whose body is
\* longer than 200 characters
C8_Witness ==
    /\ SendPromptDone /\ Requested(1)
    /\ endpoint[1].kind = "respond" /\ endpoint[1].status = 201
    /\ Len(endpoint[1].text) > 200
    /\ Len(resp[1].value.error.detail) = 200

\* C10 as stated: send_prompt reports each failure under its own kind: a
\* timeout gives the timeout message, a transport failure the network-error
\* message, a 200 body that does not match the provider schema the parse-error
\* message, and only other failures the unexpected-error message.
C10_Original ==
    (SendPromptDone /\ Requested(1))
        => LET b == endpoint[1]
               msg == resp[1].value.error.msg
           IN  /\ TimedOut(b) => msg = MsgTimeout
               /\ TransportFailed(b) => msg = MsgNetwork
               /\ SchemaMismatch(ProviderOf(1), b) => msg = MsgParse
               /\ msg = MsgUnknown
                    => ~(TimedOut(b) \/ TransportFailed(b) \/ SchemaMismatch(ProviderOf(1), b))

(***************************************************************************)
(* Properties of the responses and of the requests (C11..C20)              *)
(***************************************************************************)
\* the fragments send_prompt_streaming has passed to on_chunk, joined in order
RECURSIVE Concat(_)
Concat(fs) == IF fs = <<>> THEN <<>> ELSE Head(fs) \o Concat(Tail(fs))

\* send_prompt_streaming has returned
StreamingDone == op = "send_prompt_streaming" /\ pc[1] = "done" /\ resp[1].kind = "return"

\* C11 as stated: every APIResponse that send_prompt or send_prompt_streaming
\* returns with success=false has empty content, and every one has an integer
\* tokens_used >= 0.
C11_Original ==
    \A i \in Tasks :
        (pc[i] = "done" /\ resp[i].kind = "return")
            => /\ ~resp[i].value.success => IsEmptyStr(resp[i].value.content)
               /\ resp[i].value.tokens_used.t = "int"
               /\ resp[i].value.tokens_used.v >= 0

\* C12: within one send_to_multiple_models call every input model is invoked
\* once and at most one POST is issued for it: an invocation posts only in
\* the step that leaves "start", once it has an outcome neither its outcome
\* nor its request log changes again, and whatever the outcome (timeout,
\* transport error, HTTP error) there is no second request.
C12_OneAttemptPerModel ==
    [][\A i \in Tasks :
        /\ Len(requests'[i]) <= 1
        /\ requests'[i] # requests[i] => (pc[i] = "start" /\ Len(requests[i]) = 0)
        /\ pc[i] = "awaiting" => pc'[i] \in {"awaiting", "done"}
        /\ pc[i] = "done" => (pc'[i] = "done" /\ resp'[i] = resp[i])
        /\ gather' = "returned" => pc'[i] = "done"
      ]_vars

\* C12 witness: a fan-out has returned in which one model's single request
\* timed out, one's was answered HTTP 500 and one's connection failed
C12_Witness ==
    /\ gather = "returned"
    /\ \E i, j, k \in Tasks :
         /\ Len(requests[i]) = 1 /\ endpoint[i] = Silent
         /\ Len(requests[j]) = 1 /\ endpoint[j] = Http500
         /\ Len(requests[k]) = 1 /\ endpoint[k] = Unreachable

\* the client invocation i opened is in state st
ClientIs(i, st) == IF client_of[i] \in 1..Len(clients) THEN clients[client_of[i]] = st ELSE FALSE

\* C13: every invocation that reaches the network opens an HTTP client of its
\* own, the newest one, and that client is closed on every exit path: when
\* send_prompt or send_prompt_streaming has returned, the client it opened is
\* closed; no client belongs to two invocations, and none stays open after
\* its invocation, so none is kept for a later call.
C13_OwnClientClosed ==
    /\ \A i \in Tasks :
         /\ Requested(i) <=> client_of[i] # 0
         /\ client_of[i] # 0 => client_of[i] \in 1..Len(clients)
         /\ pc[i] \in {"awaiting", "stream_open", "streaming"} => ClientIs(i, "open")
         /\ (pc[i] = "done" /\ Requested(i)) => ClientIs(i, "closed")
    /\ \A i, j \in Tasks : (i # j /\ client_of[i] # 0) => client_of[i] # client_of[j]
    /\ \A c \in 1..Len(clients) :
         clients[c] = "open" => \E i \in Tasks : client_of[i] = c /\ pc[i] # "done"

\* C13 witness: the second call on a client, a send_prompt_streaming whose
\* stream broke after a fragment, has returned; both calls opened a client
\* and both clients are closed
C13_Witness ==
    /\ StreamingDone /\ calls = 2
    /\ endpoint[1].kind = "respond" /\ endpoint[1].tail = "RemoteProtocolError"
    /\ Len(clients) = 2 /\ client_of[1] = 2
    /\ clients[1] = "closed" /\ clients[2] = "closed"

\* the credential the environment holds for the provider of invocation i
EnvCredential(i) == get_api_key(env, ProviderOf(i))

\* C14: once a non-empty override has been set with set_custom_api_key, every
\* send_prompt on the client, whatever the provider kind, sends its request
\* with the override in the credential header, whether the environment holds
\* a credential or not, and is not rejected for a missing credential; with no
\* override, or an empty one, the request carries the environment credential
\* of the detected provider (and without one there is no request).
C14_OverrideWins ==
    [][\A i \in 1..Min(Len(pc), Len(pc')) :
        (pc[i] = "start" /\ pc'[i] # pc[i])
            => /\ ProviderOf(i) \in APIProvider
               /\ IF Truthy(custom_api_key) \/ Truthy(EnvCredential(i))
                  THEN /\ pc'[i] = "awaiting"
                       /\ Len(requests'[i]) = 1
                       /\ HeaderCredential(requests'[i][1].headers)
                             = (IF Truthy(custom_api_key) THEN custom_api_key ELSE EnvCredential(i))
                  ELSE /\ pc'[i] = "done"
                       /\ Len(requests'[i]) = 0
      ]_vars

\* C14 witness: with the override set, send_prompt has sent a request to an
\* Anthropic URL that carries the override although ANTHROPIC_API_KEY is set
C14_Witness ==
    /\ op = "send_prompt" /\ Requested(1)
    /\ custom_api_key = "sk-custom"
    /\ ProviderOf(1) = ANTHROPIC
    /\ EnvCredential(1) = "sk-ant"
    /\ requests[1][1].headers.x_api_key = "sk-custom"

\* JSON navigation that yields null wherever the path does not exist
Field(x, k) == IF x.t = "dict" THEN (IF k \in DOMAIN x.v THEN x.v[k] ELSE JNull) ELSE JNull
First(x) == IF x.t = "list" THEN (IF Len(x.v) > 0 THEN x.v[1] ELSE JNull) ELSE JNull

IsDoneLine(line) == line.data /\ line.kind = "done"

\* the text fragment a streamed line carries for the provider, <<>> if none
ChunkText(provider, line) ==
    IF line.data /\ line.kind = "json"
    THEN LET d == IF provider = ANTHROPIC
                  THEN Field(Field(line.json, "delta"), "text")
                  ELSE Field(Field(First(Field(line.json, "choices")), "delta"), "content")
         IN  IF d.t = "str" THEN d.v ELSE <<>>
    ELSE <<>>

\* the non-empty text fragments of the lines up to the first [DONE], in order
RECURSIVE ArrivedFragments(_, _)
ArrivedFragments(provider, lines) ==
    IF lines = <<>> THEN <<>>
    ELSE IF IsDoneLine(Head(lines)) THEN <<>>
    ELSE (IF ChunkText(provider, Head(lines)) # <<>> THEN <<ChunkText(provider, Head(lines))>> ELSE <<>>)
            \o ArrivedFragments(provider, Tail(lines))

\* C15: in send_prompt_streaming on_chunk has been called once for each
\* non-empty text fragment of the lines read so far, in arrival order, and
\* for none behind [DONE]; no response exists before the call is done, a call
\* whose stream was opened is done only when [DONE] was read, the lines are
\* exhausted or reading failed, and the content of the response is the
\* concatenation, in order, of the fragments passed to on_chunk.
C15_ChunksThenContent ==
    op = "send_prompt_streaming" =>
        \A i \in Tasks :
            LET lines == endpoint[i].lines
                read == SubSeq(lines, 1, pos[i])
            IN  /\ chunks[i] = ArrivedFragments(ProviderOf(i), read)
                /\ \A k \in 1..Len(chunks[i]) : chunks[i][k] # <<>>
                /\ \A k \in 1..(pos[i] - 1) : ~IsDoneLine(lines[k])
                /\ pc[i] # "done" => resp[i] = NoOutcome
                /\ pc[i] = "done"
                     => /\ resp[i].kind = "return"
                        /\ resp[i].value.content = JStr(Concat(chunks[i]))
                        /\ (Requested(i) /\ endpoint[i].kind = "respond" /\ endpoint[i].status = 200)
                              => IF pos[i] = Len(lines) THEN TRUE ELSE IsDoneLine(lines[pos[i]])

\* C15 witness: a stream of a fragment, [DONE] and another fragment has ended
\* with the first fragment delivered and returned, the last line unread
C15_Witness ==
    /\ StreamingDone
    /\ Len(endpoint[1].lines) = 3 /\ IsDoneLine(endpoint[1].lines[2])
    /\ ChunkText(ProviderOf(1), endpoint[1].lines[3]) # <<>>
    /\ pos[1] = 2
    /\ chunks[1] = << <<"h", "e">> >>
    /\ resp[1].value.success /\ resp[1].value.content = JStr(<<"h", "e">>)

\* the URL contains the domain name in one of its spellings
Spellings(domain) ==
    CASE domain = "openai.com" -> {"openai.com", "OPENAI.COM"}
      [] domain = "anthropic.com" -> {"anthropic.com", "Anthropic.Com"}
      [] domain = "deepseek.com" -> {"deepseek.com", "DeepSeek.Com"}
      [] domain = "groq.com" -> {"groq.com", "GROQ.COM"}

Mentions(url, domain) == \E k \in 1..Len(url) : url[k] \in Spellings(domain)

\* C16 as stated: detect_provider returns for every URL, ANTHROPIC for a URL
\* containing 'anthropic.com', an OpenAI-compatible kind for a URL containing
\* 'openai.com', 'deepseek.com' or 'groq.com' (in any case of the letters),
\* CUSTOM for every other URL, and the same kind on every call.
C16_Original ==
    op = "detect_provider" =>
        \A k \in 1..Len(call_ret) :
            LET r == call_ret[k]
            IN  /\ r.kind = "return"
                /\ Mentions(call_args, "anthropic.com") => r.value = ANTHROPIC
                /\ (Mentions(call_args, "openai.com") \/ Mentions(call_args, "deepseek.com")
                       \/ Mentions(call_args, "groq.com")) => r.value \in {OPENAI, DEEPSEEK, GROQ}
                /\ ~(\E d \in {"openai.com", "anthropic.com", "deepseek.com", "groq.com"} :
                         Mentions(call_args, d)) => r.value = CUSTOM
                /\ r = call_ret[1]

\* C16 amended: detect_provider returns for every URL the kind of the first
\* of 'openai.com', 'anthropic.com', 'deepseek.com', 'groq.com', in this
\* order, that the URL contains in any case of the letters, CUSTOM for a URL
\* that contains none (the OpenRouter URL, the empty string), and the same
\* kind on every call.
C16_Amended ==
    op = "detect_provider" =>
        \A k \in 1..Len(call_ret) :
            LET r == call_ret[k]
                o == Mentions(call_args, "openai.com")
                a == Mentions(call_args, "anthropic.com")
                d == Mentions(call_args, "deepseek.com")
                g == Mentions(call_args, "groq.com")
            IN  /\ r.kind = "return"
                /\ o => r.value = OPENAI
                /\ (a /\ ~o) => r.value = ANTHROPIC
                /\ (d /\ ~o /\ ~a) => r.value = DEEPSEEK
                /\ (g /\ ~o /\ ~a /\ ~d) => r.value = GROQ
                /\ ~(o \/ a \/ d \/ g) => r.value = CUSTOM
                /\ r = call_ret[1]

\* C16 witness: two calls with a URL that holds 'Anthropic.Com' before
\* 'OPENAI.COM' have both returned OPENAI
C16_Witness ==
    /\ op = "detect_provider"
    /\ call_args = <<"Anthropic.Com", "OPENAI.COM">>
    /\ call_ret = <<Return(OPENAI), Return(OPENAI)>>

\* the text and the token count at the places the provider's schema names
ContentField(provider, data) ==
    IF provider = ANTHROPIC
    THEN data.v["content"].v[1].v["text"]
    ELSE data.v["choices"].v[1].v["message"].v["content"]

TokenField(provider, data) ==
    IF "usage" \in DOMAIN data.v
    THEN IF TokenKey(provider) \in DOMAIN data.v["usage"].v
         THEN data.v["usage"].v[TokenKey(provider)]
         ELSE JInt(0)
    ELSE JInt(0)

\* C17: for a well-formed body _parse_response returns success=true with no
\* error, the content content[0].text for ANTHROPIC and
\* choices[0].message.content for every other kind, and tokens_used
\* usage.output_tokens for ANTHROPIC and usage.completion_tokens for every
\* other kind, 0 when usage is absent.
C17_WellFormedParsed ==
    (parsed.kind # "none" /\ WellFormed(parse_in.provider, parse_in.data))
        => parsed = Return(APIResponse(TRUE, ContentField(parse_in.provider, parse_in.data),
                                       NoMessage, TokenField(parse_in.provider, parse_in.data)))

\* C17 witness: an Anthropic body with usage.output_tokens has been parsed
C17_Witness ==
    /\ op = "_parse_response"
    /\ parse_in = [provider |-> ANTHROPIC, data |-> BodyAnthropic]
    /\ parsed.kind = "return"
    /\ parsed.value.success
    /\ parsed.value.content = Hello
    /\ parsed.value.tokens_used = JInt(5)

\* the credential _get_headers was called with: the override if non-empty,
\* else the environment's for the provider; "" when there is none
CredentialValue ==
    LET c == IF Truthy(call_args.custom_api_key) THEN call_args.custom_api_key
             ELSE get_api_key(env, call_args.provider)
    IN  IF Truthy(c) THEN c ELSE ""

\* C18: _get_headers depends on the provider kind only through ANTHROPIC
\* versus the rest: for ANTHROPIC it returns x-api-key with the credential,
\* anthropic-version "2023-06-01" and no Authorization; for every other kind
\* Authorization "Bearer " + credential, no x-api-key and no
\* anthropic-version; both have Content-Type application/json, and with no
\* credential the value is empty.
C18_HeadersBySplit ==
    (op = "_get_headers" /\ Len(call_ret) > 0)
        => LET h == call_ret[1].value
           IN  /\ call_ret[1].kind = "return"
               /\ h.content_type = "application/json"
               /\ IF call_args.provider = ANTHROPIC
                  THEN /\ h.x_api_key = CredentialValue
                       /\ h.anthropic_version = "2023-06-01"
                       /\ h.authorization = NoAuthorization
                  ELSE /\ h.authorization = <<"Bearer ", CredentialValue>>
                       /\ h.x_api_key = NoHeader
                       /\ h.anthropic_version = NoHeader

\* C18 witness: _get_headers has been called for ANTHROPIC with neither an
\* override nor ANTHROPIC_API_KEY and has returned an empty x-api-key
C18_Witness ==
    /\ op = "_get_headers" /\ Len(call_ret) > 0
    /\ call_args.provider = ANTHROPIC
    /\ ~Truthy(call_args.custom_api_key)
    /\ env["ANTHROPIC_API_KEY"] = None_
    /\ call_ret[1].value.x_api_key = ""
    /\ call_ret[1].value.authorization = NoAuthorization

\* C19: for every provider kind, model identifier and prompt the body of
\* _build_request_body has the given model, max_tokens (4096 when the
\* argument is omitted, else the argument) and exactly one message, of role
\* "user", whose content is the prompt unchanged.
C19_OneUserMessage ==
    (op = "_build_request_body" /\ Len(call_ret) > 0)
        => LET b == call_ret[1].value
           IN  /\ call_ret[1].kind = "return"
               /\ b.model = call_args.model_id
               /\ b.max_tokens = (IF call_args.max_tokens = <<>> THEN 4096
                                  ELSE call_args.max_tokens[1])
               /\ Len(b.messages) = 1
               /\ \A k \in 1..Len(b.messages) : b.messages[k].role = "user"
               /\ b.messages[1].content = call_args.prompt

\* C19 witness: a body has been built for an OpenAI-compatible kind with a
\* two-character prompt and max_tokens omitted
C19_Witness ==
    /\ op = "_build_request_body" /\ Len(call_ret) > 0
    /\ call_args.provider = DEEPSEEK
    /\ call_args.max_tokens = <<>>
    /\ Len(call_args.prompt) = 2
    /\ call_ret[1].value.max_tokens = 4096
    /\ call_ret[1].value.messages = <<[role |-> "user", content |-> call_args.prompt]>>

\* C20: send_to_multiple_models called with an empty list of models can
\* return at once, raises nothing, returns the empty mapping, and neither
\* opens an HTTP client nor sends a request.
C20_EmptyListEmptyMapping ==
    (op = "send_to_multiple_models" /\ Len(models) = 0)
        => /\ gather # "raised"
           /\ gather = "pending" => ENABLED GatherReturn
           /\ gather = "returned" => DOMAIN result = {}
           /\ clients = <<>>
           /\ requests = <<>>

\* C20 witness: the fan-out over the empty list has returned
C20_Witness ==
    /\ op = "send_to_multiple_models"
    /\ models = <<>>
    /\ gather = "returned"
    /\ result = EmptyResult

(***************************************************************************)
(* C23: a model of the CUSTOM kind always fails for want of a credential   *)
(***************************************************************************)
\* C23: in a fan-out of send_to_multiple_models the override credential is
\* never set, and an invocation whose URL is classified CUSTOM never sends an
\* HTTP request and, once it has an outcome, that outcome is the returned
\* missing-credential failure, in every environment.
C23_CustomNeverRequested ==
    /\ custom_api_key = None_
    /\ \A i \in Tasks :
         ProviderOf(i) = CUSTOM
            => /\ ~Requested(i)
               /\ pc[i] \in {"start", "done"}
               /\ pc[i] = "done"
                     => resp[i] = Return(FailureResponse(Message(MsgNoKey, 0, <<CUSTOM>>)))

\* a returned fan-out, in the environment that sets every key, with the
\* OpenRouter model failed without a request beside a model that was sent
C23_Witness ==
    /\ gather = "returned"
    /\ \A n \in EnvVars : Truthy(env[n])
    /\ \E i, j \in Tasks :
         /\ models[i] = ModelPool[4] /\ ProviderOf(i) = CUSTOM
         /\ pc[i] = "done" /\ ~Requested(i)
         /\ resp[i].kind = "return" /\ resp[i].value.error.msg = MsgNoKey
         /\ Requested(j)

(***************************************************************************)
(* Callers of db.py                                                        *)
(***************************************************************************)
\* no fan-out and no call of the network module is under way
NetworkIdle ==
    /\ env = Env(None_, None_, None_, None_)
    /\ custom_api_key = None_
    /\ models = <<>> /\ endpoint = <<>> /\ pc = <<>> /\ resp = <<>> /\ requests = <<>>
    /\ parse_calls = <<>> /\ pos = <<>> /\ full_content = <<>> /\ chunks = <<>>
    /\ gather = "pending"
    /\ result = EmptyResult
    /\ calls = 0
    /\ parse_in = NoParseIn
    /\ parsed = NoOutcome
    /\ op = NoOp
    /\ clients = <<>> /\ client_of = <<>>
    /\ call_args = NoArgs
    /\ call_ret = <<>>

\* one call on db.py as its caller saw it: the function, the id passed or
\* returned (0 where there is none), the text passed or returned, and the
\* boolean returned (for a call that returns none: whether it returned at all)
DbCall(f, id, text, ok) == [op |-> f, id |-> id, text |-> text, ok |-> ok]

\* the ids a caller may pass: every id there can be, and one there cannot
CallIds == 1..(MaxOps + 1)

\* db.create_prompt(Prompt(text=text))
CreatePrompt(text) ==
    /\ Len(db_log) < MaxOps
    /\ LET r == create_prompt(db, text)
       IN  /\ db' = r.db
           /\ db_log' = Append(db_log,
                  IF r.ret.kind = "return"
                  THEN DbCall("create_prompt", r.ret.value, text, TRUE)
                  ELSE DbCall("create_prompt", 0, text, FALSE))
    /\ UNCHANGED << netvars, ui, dialog >>

\* db.get_prompt(prompt_id)
GetPrompt(prompt_id) ==
    /\ Len(db_log) < MaxOps
    /\ LET r == get_prompt(db, prompt_id)
       IN  /\ db' = r.db
           /\ db_log' = Append(db_log,
                  DbCall("get_prompt", prompt_id, r.ret.value.text, ~IsNone(r.ret.value)))
    /\ UNCHANGED << netvars, ui, dialog >>

\* db.delete_prompt(prompt_id)
DeletePrompt(prompt_id) ==
    /\ Len(db_log) < MaxOps
    /\ LET r == delete_prompt(db, prompt_id)
       IN  /\ db' = r.db
           /\ db_log' = Append(db_log, DbCall("delete_prompt", prompt_id, None_, r.ret.value))
    /\ UNCHANGED << netvars, ui, dialog >>

\* a new database file, and any calls on the prompts table
InitPrompts ==
    /\ NetworkIdle
    /\ db = SeededDb(0) /\ db_log = <<>> /\ ui = NoUi /\ dialog = NoDialog

NextPrompts ==
    \/ \E text \in ({"a", "b"}) \cup {None_} : CreatePrompt(text)
    \/ \E id \in CallIds : GetPrompt(id)
    \/ \E id \in CallIds : DeletePrompt(id)

SpecPrompts == InitPrompts /\ [][NextPrompts]_vars

(***************************************************************************)
(* C21: prompts are found from their creation to their deletion            *)
(***************************************************************************)
Front(s) == SubSeq(s, 1, Len(s) - 1)

\* the prompts created and not deleted since, by the calls of a log
RECURSIVE LivePrompts(_)
LivePrompts(log) ==
    IF log = <<>> THEN {}
    ELSE LET e == log[Len(log)]
             before == LivePrompts(Front(log))
         IN  IF e.op = "create_prompt" /\ e.ok THEN before \cup {PromptRow(e.id, e.text)}
             ELSE IF e.op = "delete_prompt" THEN {p \in before : p.id # e.id}
             ELSE before

CreatedIds(log) == {k \in 1..Len(log) : log[k].op = "create_prompt" /\ log[k].ok}

\* C21: after any sequence of create_prompt and delete_prompt calls,
\* get_prompt(id) returns the prompt of that id with the text it was created
\* with exactly when create_prompt returned the id and it was not deleted
\* since, and None for every other id; delete_prompt returns true exactly
\* when it removed a row; no id is returned by create_prompt twice.
C21_PromptLifecycle ==
    /\ \A id \in CallIds :
         LET got == get_prompt(db, id).ret.value
         IN  IF \E p \in LivePrompts(db_log) : p.id = id
             THEN got \in LivePrompts(db_log) /\ got.id = id
             ELSE IsNone(got)
    /\ \A k \in 1..Len(db_log) :
         LET e == db_log[k]
             before == LivePrompts(SubSeq(db_log, 1, k - 1))
         IN  /\ e.op = "get_prompt"
                => e.ok = (\E p \in before : p.id = e.id /\ p.text = e.text)
             /\ e.op = "delete_prompt"
                => e.ok = (\E p \in before : p.id = e.id)
    /\ \A j, k \in CreatedIds(db_log) : db_log[j].id = db_log[k].id => j = k

\* a prompt was created, found, deleted (true), deleted again (false), and
\* the next create_prompt returned a new id
C21_Witness ==
    /\ Len(db_log) = 4
    /\ db_log[1].op = "create_prompt" /\ db_log[1].id = 1
    /\ db_log[2].op = "delete_prompt" /\ db_log[2].id = 1 /\ db_log[2].ok
    /\ db_log[3].op = "delete_prompt" /\ db_log[3].id = 1 /\ ~db_log[3].ok
    /\ db_log[4].op = "create_prompt" /\ db_log[4].id = 2
    /\ IsNone(get_prompt(db, 1).ret.value)
    /\ get_prompt(db, 2).ret.value.text = db_log[4].text

(***************************************************************************)
(* Callers of the results table                                            *)
(***************************************************************************)
\* one call on the results table as its caller saw it: the function, the
\* ids passed or returned, the selection value passed, the boolean returned
ResultCall(f, ids, sel, ok) == [op |-> f, ids |-> ids, sel |-> sel, ok |-> ok]

\* a create_result call, with the prompt and the model of the Result passed
CreateResultCall(prompt_id, model_id, ids, sel, ok) ==
    [op |-> "create_result", ids |-> ids, sel |-> sel, ok |-> ok,
     prompt_id |-> prompt_id, model_id |-> model_id]

\* the result ids a caller may pass: the ids a run can create
ResultIds == 1..MaxResultOps

\* db.create_result(Result(prompt_id, model_id, is_selected=is_selected))
CreateResult(prompt_id, model_id, is_selected) ==
    /\ Len(db_log) < MaxResultOps
    /\ LET r == create_result(db, prompt_id, model_id, is_selected)
       IN  /\ db' = r.db
           /\ db_log' = Append(db_log,
                  CreateResultCall(prompt_id, model_id,
                      IF r.ret.kind = "return" THEN {r.ret.value} ELSE {}, is_selected,
                      r.ret.kind = "return"))
    /\ UNCHANGED << netvars, ui, dialog >>

\* db.update_result_selection(result_id, is_selected)
UpdateResultSelection(result_id, is_selected) ==
    /\ Len(db_log) < MaxResultOps
    /\ LET r == update_result_selection(db, result_id, is_selected)
       IN  /\ db' = r.db
           /\ db_log' = Append(db_log,
                  ResultCall("update_result_selection", {result_id}, is_selected, r.ret.value))
    /\ UNCHANGED << netvars, ui, dialog >>

\* db.update_results_selection(result_ids, is_selected)
UpdateResultsSelection(result_ids, is_selected) ==
    /\ Len(db_log) < MaxResultOps
    /\ LET r == update_results_selection(db, result_ids, is_selected)
       IN  /\ db' = r.db
           /\ db_log' = Append(db_log,
                  ResultCall("update_results_selection", result_ids, is_selected, r.ret.value > 0))
    /\ UNCHANGED << netvars, ui, dialog >>

\* db.delete_result(result_id)
DeleteResult(result_id) ==
    /\ Len(db_log) < MaxResultOps
    /\ LET r == delete_result(db, result_id)
       IN  /\ db' = r.db
           /\ db_log' = Append(db_log, ResultCall("delete_result", {result_id}, FALSE, r.ret.value))
    /\ UNCHANGED << netvars, ui, dialog >>

\* db.get_selected_results()
GetSelectedResults ==
    /\ Len(db_log) < MaxResultOps
    /\ LET r == get_selected_results(db)
       IN  /\ db' = r.db
           /\ db_log' = Append(db_log, ResultCall("get_selected_results", Ids(r.ret.value), TRUE, TRUE))
    /\ UNCHANGED << netvars, ui, dialog >>

\* a database with the first seeded model and one stored prompt
InitResults ==
    /\ NetworkIdle
    /\ db = create_prompt(SeededDb(1), "a").db
    /\ db_log = <<>> /\ ui = NoUi /\ dialog = NoDialog

NextResults ==
    \/ \E is_selected \in BOOLEAN : CreateResult(1, 1, is_selected)
    \/ \E id \in ResultIds, is_selected \in BOOLEAN : UpdateResultSelection(id, is_selected)
    \/ \E ids \in ({{}} \cup {{a, b} : a, b \in ResultIds}), is_selected \in BOOLEAN : UpdateResultsSelection(ids, is_selected)
    \/ \E id \in ResultIds : DeleteResult(id)
    \/ GetSelectedResults

SpecResults == InitResults /\ [][NextResults]_vars

(***************************************************************************)
(* C22: the selected results are those last written as selected            *)
(***************************************************************************)
\* the existing results, each with the selection value last written, by the
\* calls of a log
RECURSIVE LastWritten(_)
LastWritten(log) ==
    IF log = <<>> THEN {}
    ELSE LET e == log[Len(log)]
             before == LastWritten(Front(log))
         IN  IF e.op = "create_result" /\ e.ok
                THEN before \cup {[id |-> id, sel |-> e.sel] : id \in e.ids}
             ELSE IF e.op \in {"update_result_selection", "update_results_selection"}
                THEN {IF w.id \in e.ids THEN [w EXCEPT !.sel = e.sel] ELSE w : w \in before}
             ELSE IF e.op = "delete_result" THEN {w \in before : w.id \notin e.ids}
             ELSE before

WrittenSelected(log) == {w.id : w \in {x \in LastWritten(log) : x.sel}}

\* C22: after any sequence of create_result, update_result_selection,
\* update_results_selection and delete_result calls, get_selected_results
\* returns exactly the existing results whose last written selection value
\* is true; a result is listed after update_result_selection(id, True) and
\* not after update_result_selection(id, False) or delete_result(id);
\* update_result_selection returns true exactly when the id exists.
C22_SelectedAreLastWritten ==
    /\ Ids(get_selected_results(db).ret.value) = WrittenSelected(db_log)
    /\ \A k \in 1..Len(db_log) :
         LET e == db_log[k]
             before == LastWritten(SubSeq(db_log, 1, k - 1))
             listed == Ids(get_selected_results(db).ret.value)
         IN  /\ e.op = "get_selected_results"
                => e.ids = WrittenSelected(SubSeq(db_log, 1, k - 1))
             /\ e.op = "update_result_selection"
                => e.ok = (\E w \in before : w.id \in e.ids)
             /\ (k = Len(db_log) /\ e.op = "update_result_selection")
                => (e.ids \subseteq listed) = (e.ok /\ e.sel)
             /\ (k = Len(db_log) /\ e.op = "delete_result")
                => e.ids \cap listed = {}

\* a result created unselected is listed after update_result_selection(1,
\* True), and no longer after update_result_selection(1, False)
C22_Witness ==
    /\ Len(db_log) = 3
    /\ db_log[1].op = "create_result" /\ db_log[1].ids = {1} /\ ~db_log[1].sel
    /\ db_log[2].op = "update_result_selection" /\ db_log[2].ids = {1} /\ db_log[2].sel /\ db_log[2].ok
    /\ db_log[3].op = "update_result_selection" /\ db_log[3].ids = {1} /\ ~db_log[3].sel
    /\ 1 \in Ids(db.results)
    /\ get_selected_results(db).ret.value = {}

(***************************************************************************)
(* Callers of every table                                                  *)
(***************************************************************************)
\* db.create_model(Model(name=name, ...))
CreateModel(name) ==
    /\ Len(db_log) < MaxOps
    /\ LET r == create_model(db, name)
       IN  /\ db' = r.db
           /\ db_log' = Append(db_log,
                  IF r.ret.kind = "return"
                  THEN DbCall("create_model", r.ret.value, name, TRUE)
                  ELSE DbCall("create_model", 0, name, FALSE))
    /\ UNCHANGED << netvars, ui, dialog >>

\* db.delete_model(model_id)
DeleteModel(model_id) ==
    /\ Len(db_log) < MaxOps
    /\ LET r == delete_model(db, model_id)
       IN  /\ db' = r.db
           /\ db_log' = Append(db_log, DbCall("delete_model", model_id, None_, r.ret.value))
    /\ UNCHANGED << netvars, ui, dialog >>

\* db.save_settings(settings)
SaveSettings(settings) ==
    /\ Len(db_log) < MaxOps
    /\ LET r == save_settings(db, settings)
       IN  /\ db' = r.db
           /\ db_log' = Append(db_log, DbCall("save_settings", 0, None_, r.ret.kind = "return"))
    /\ UNCHANGED << netvars, ui, dialog >>

\* a database with two seeded models and one stored prompt
InitStore ==
    /\ NetworkIdle
    /\ db = create_prompt(SeededDb(2), "a").db
    /\ db_log = <<>> /\ ui = NoUi /\ dialog = NoDialog

NextStore ==
    \/ CreatePrompt("b")
    \/ \E name \in {SeedNames[1], "new"} : CreateModel(name)
    \/ \E prompt_id \in 1..2, model_id \in 1..3 : CreateResult(prompt_id, model_id, FALSE)
    \/ \E id \in 1..2 : DeletePrompt(id)
    \/ \E id \in 1..3 : DeleteModel(id)
    \/ \E settings \in ({Settings(t, a, "30") : t \in {"dark", "light"}, a \in {"user", Unbindable}}) : SaveSettings(settings)

SpecStore == InitStore /\ [][NextStore]_vars

(***************************************************************************)
(* C28: results reference existing prompts and models                      *)
(***************************************************************************)
ReferencesExist(d) ==
    \A r \in d.results : r.prompt_id \in Ids(d.prompts) /\ r.model_id \in Ids(d.models)

\* the call a step has made: the entry it appended to the log
Called == db_log'[Len(db_log')]

C28_Step ==
    Len(db_log') = Len(db_log) + 1
        => /\ Called.op = "create_result"
              => IF Called.prompt_id \in Ids(db.prompts) /\ Called.model_id \in Ids(db.models)
                 THEN /\ Called.ok
                      /\ \E row \in db'.results \ db.results :
                           /\ row.prompt_id = Called.prompt_id
                           /\ row.model_id = Called.model_id
                           /\ db'.results = db.results \cup {row}
                 ELSE ~Called.ok /\ db'.results = db.results
           /\ Called.op = "delete_prompt"
              => /\ db'.results = {r \in db.results : r.prompt_id # Called.id}
                 /\ db'.models = db.models
           /\ Called.op = "delete_model"
              => /\ db'.results = {r \in db.results : r.model_id # Called.id}
                 /\ db'.prompts = db.prompts

\* C28: in every reachable database state each result row references an
\* existing prompt and an existing model; create_result with a prompt id or
\* a model id that does not exist fails and stores nothing; delete_prompt and
\* delete_model remove exactly the results of that prompt or model.
C28_ReferentialIntegrity == []ReferencesExist(db) /\ [][C28_Step]_vars

\* two results of one prompt and two models were stored, a create_result for
\* a model that does not exist failed, and delete_model(1) left the result of
\* model 2 alone
C28_Witness ==
    /\ Len(db_log) = 4
    /\ db_log[1].op = "create_result" /\ db_log[1].ok /\ db_log[1].model_id = 1
    /\ db_log[2].op = "create_result" /\ db_log[2].ok /\ db_log[2].model_id = 2
    /\ db_log[3].op = "create_result" /\ ~db_log[3].ok /\ db_log[3].model_id = 3
    /\ db_log[4].op = "delete_model" /\ db_log[4].id = 1 /\ db_log[4].ok
    /\ db.results = {ResultRow(2, 1, 2, FALSE)}

(***************************************************************************)
(* C29: an operation that raises leaves the stored data unchanged          *)
(***************************************************************************)
\* the entry of a call that raised: the create functions and save_settings
\* return no boolean, and their entry holds whether they returned
Raised(e) ==
    /\ e.op \in {"create_prompt", "create_model", "create_result", "save_settings"}
    /\ ~e.ok

\* C29: a database operation that raises leaves the stored data as it was
\* before the call, so that the next operation sees no partial write; in
\* particular create_model with a name that exists raises and leaves the
\* set of models unchanged.
C29_Original ==
    [][(Len(db_log') = Len(db_log) + 1 /\ Raised(Called))
          => /\ db' = db
             /\ Called.op = "create_model" => db'.models = db.models
      ]_vars

(***************************************************************************)
(* main.py: SettingsDialog, the table of models                            *)
(***************************************************************************)
\* SettingsDialog._load_models: one row per model, r = its index
SettingsDialog_load_models(d) ==
    LET ids == get_all_models(d)
    IN  [k \in 1..Len(ids) |-> TableRow(ids[k], k - 1)]

\* QTableWidget.removeRow(row) on the rows of the table; no row: no change
removeRow(rows, row) ==
    IF row < Len(rows)
    THEN [k \in 1..(Len(rows) - 1) |-> IF k <= row THEN rows[k] ELSE rows[k + 1]]
    ELSE rows

\* _delete_model_row(row), the user answering the question with reply
_delete_model_row(d, rows, row, reply) ==
    LET name_item == row < Len(rows)
        model_id == rows[row + 1].model_id
    IN  [db |-> IF name_item /\ model_id # 0 /\ reply THEN delete_model(d, model_id).db ELSE d,
         rows |-> removeRow(rows, row)]

\* MainWindow._open_settings: SettingsDialog(self) and dialog.exec()
OpenSettings ==
    /\ ~dialog.open
    /\ dialog' = [dialog EXCEPT !.open = TRUE, !.rows = SettingsDialog_load_models(db)]
    /\ UNCHANGED << netvars, db, db_log, ui >>

\* the add button: _add_model_row
AddModelRow ==
    /\ dialog.open
    /\ dialog.adds < MaxAdds
    /\ LET row == Len(dialog.rows)
       IN  dialog' = [dialog EXCEPT !.rows = Append(@, TableRow(0, row)), !.adds = @ + 1]
    /\ UNCHANGED << netvars, db, db_log, ui >>

\* a click on the delete button shown in the row at position k, and the
\* answer to the confirmation question if it is asked
ClickDelete(k, reply) ==
    /\ dialog.open
    /\ dialog.clicks < MaxClicks
    /\ k \in 0..(Len(dialog.rows) - 1)
    /\ LET after == _delete_model_row(db, dialog.rows, dialog.rows[k + 1].r, reply)
       IN  /\ db' = after.db
           /\ dialog' = [dialog EXCEPT !.rows = after.rows, !.clicks = @ + 1,
                             !.last = [row |-> k, model_id |-> dialog.rows[k + 1].model_id,
                                       reply |-> reply]]
    /\ UNCHANGED << netvars, db_log, ui >>

\* the cancel button: reject
CloseSettings ==
    /\ dialog.open
    /\ dialog' = [dialog EXCEPT !.open = FALSE, !.rows = <<>>]
    /\ UNCHANGED << netvars, db, db_log, ui >>

\* the seeded models, and the dialog not yet opened
InitDialog ==
    /\ NetworkIdle
    /\ db = SeededDb(3)
    /\ db_log = <<>> /\ ui = NoUi /\ dialog = NoDialog

NextDialog ==
    \/ OpenSettings
    \/ AddModelRow
    \/ \E k \in 0..(3 + MaxAdds), reply \in BOOLEAN : ClickDelete(k, reply)
    \/ CloseSettings

SpecDialog == InitDialog /\ [][NextDialog]_vars

(***************************************************************************)
(* C30: the delete button of a row deletes the model of that row           *)
(***************************************************************************)
\* C30: a click on the delete button shown in a model's row, confirmed,
\* deletes the model of that row and no other, after any earlier additions
\* and deletions of rows in the same dialog.
C30_Original ==
    [][(dialog'.clicks = dialog.clicks + 1 /\ dialog'.last.reply /\ dialog'.last.model_id # 0)
          => Ids(db'.models) = Ids(db.models) \ {dialog'.last.model_id}
      ]_vars

(***************************************************************************)
(* main.py: MainWindow, ResultCard and APIWorker                           *)
(***************************************************************************)
\* A ResultCard, by what its Result holds and by the life of its widget:
\* "shown" in result_cards, "delete_later" after _clear_results has called
\* deleteLater on it, "deleted" once the event loop has destroyed it.
Card(model_id, result_id, is_selected, state) ==
    [model_id |-> model_id, result_id |-> result_id, is_selected |-> is_selected, state |-> state]

\* a destroyed widget: nothing of it can be read
Destroyed == Card(0, 0, FALSE, "deleted")

\* a worker whose signal was delivered: nothing reads its models, its
\* results or the cards of its lambda again
Delivered(worker, state) ==
    [worker EXCEPT !.state = state, !.selected = {},
                   !.model_cards = [m \in {} |-> 0], !.results = [m \in {} |-> FALSE]]

\* An APIWorker with what the lambda connected to its finished signal
\* captured: "running", then "finished" or "error" (the signal is emitted and
\* queued), then "handled" or, if the handler raised, "raised".
APIWorker(selected, prompt_id, model_cards) ==
    [state |-> "running", selected |-> selected, prompt_id |-> prompt_id,
     model_cards |-> model_cards, results |-> [m \in {} |-> FALSE],
     finished_emits |-> 0, error_emits |-> 0]

\* MainWindow.__init__ on a database with two models: both have a checkbox
MainWindow(d) ==
    [send_enabled |-> TRUE, current_prompt_id |-> 0, combo |-> 0, selects |-> 0, toggles |-> 0,
     checkboxes |-> Ids(d.models), cards |-> <<>>, workers |-> <<>>, crashed |-> FALSE]

\* a disabled QPushButton emits no clicked signal
ClickEnabledAlways(u) == TRUE

ClickEnabled(u) == u.send_enabled

\* _clear_results: deleteLater on every card of the layout
_clear_results(cards) ==
    [c \in 1..Len(cards) |->
        IF cards[c].state = "shown" THEN [cards[c] EXCEPT !.state = "delete_later"] ELSE cards[c]]

\* _get_selected_models: the checked models that get_model still finds
_get_selected_models(d, checked) == {m \in checked : ~IsNone(get_model(d, m).ret.value)}

\* a click on the send button, the prompt text not empty and checked the
\* models whose checkbox is checked (_load_models checks the box of every
\* active model, and the runs keep them checked)
OnSendClicked(text, checked) ==
    /\ ~ui.crashed /\ ~dialog.open
    /\ ClickEnabled(ui)
    /\ Len(ui.workers) < MaxSends
    /\ checked \subseteq ui.checkboxes
    /\ LET selected_models == _get_selected_models(db, checked)
           created == create_prompt(db, text)
           prompt_id == created.ret.value
           cleared == _clear_results(ui.cards)
           order == Ascending(selected_models)
           loading == [k \in 1..Len(order) |-> Card(order[k], 0, FALSE, "shown")]
           model_cards == [m \in selected_models |->
                              Len(cleared) + (CHOOSE k \in 1..Len(order) : order[k] = m)]
       IN  /\ selected_models # {}
           /\ db' = created.db
           /\ ui' = [ui EXCEPT !.current_prompt_id = prompt_id,
                               !.cards = cleared \o loading,
                               !.send_enabled = FALSE,
                               !.workers = Append(@, APIWorker(selected_models, prompt_id, model_cards)),
                               !.combo = 0]
    /\ UNCHANGED << netvars, db_log, dialog >>

\* APIWorker.run: send_to_multiple_models returns an outcome per model and
\* finished is emitted, or an exception is caught and error is emitted
APIWorkerRun(w) ==
    /\ ~ui.crashed
    /\ w \in 1..Len(ui.workers)
    /\ ui.workers[w].state = "running"
    /\ \/ \E results \in [ui.workers[w].selected -> BOOLEAN] :
            ui' = [ui EXCEPT !.workers[w].state = "finished",
                             !.workers[w].results = results,
                             !.workers[w].finished_emits = @ + 1]
       \/ ui' = [ui EXCEPT !.workers[w].state = "error",
                           !.workers[w].error_emits = @ + 1]
    /\ UNCHANGED << netvars, db, db_log, dialog >>

\* the loop of _on_api_finished over the models still to do: set_response or
\* set_error on the card (RuntimeError on a destroyed widget), and for a
\* success create_result (IntegrityError without the prompt or the model)
RECURSIVE _on_api_finished(_, _, _, _)
_on_api_finished(u, d, worker, todo) ==
    IF todo = <<>> THEN [ui |-> [u EXCEPT !.send_enabled = TRUE], db |-> d, raised |-> FALSE]
    ELSE LET model_id == Head(todo)
             c == worker.model_cards[model_id]
         IN  IF u.cards[c].state = "deleted" THEN [ui |-> u, db |-> d, raised |-> TRUE]
             ELSE IF ~worker.results[model_id] THEN _on_api_finished(u, d, worker, Tail(todo))
             ELSE LET stored == create_result(d, worker.prompt_id, model_id, FALSE)
                  IN  IF stored.ret.kind = "raise" THEN [ui |-> u, db |-> stored.db, raised |-> TRUE]
                      ELSE _on_api_finished([u EXCEPT !.cards[c].result_id = stored.ret.value],
                                            stored.db, worker, Tail(todo))

\* the queued finished signal is delivered; an exception that leaves the
\* slot ends the application
OnApiFinished(w) ==
    /\ ~ui.crashed
    /\ w \in 1..Len(ui.workers)
    /\ ui.workers[w].state = "finished"
    /\ LET after == _on_api_finished(ui, db, ui.workers[w], Ascending(ui.workers[w].selected))
       IN  /\ db' = after.db
           /\ ui' = IF after.raised
                    THEN [after.ui EXCEPT !.workers[w] = Delivered(@, "raised"), !.crashed = TRUE]
                    ELSE [after.ui EXCEPT !.workers[w] = Delivered(@, "handled")]
    /\ UNCHANGED << netvars, db_log, dialog >>

\* the queued error signal is delivered: _on_api_error
OnApiError(w) ==
    /\ ~ui.crashed
    /\ w \in 1..Len(ui.workers)
    /\ ui.workers[w].state = "error"
    /\ ui' = [ui EXCEPT !.workers[w] = Delivered(@, "handled"), !.send_enabled = TRUE]
    /\ UNCHANGED << netvars, db, db_log, dialog >>

\* _load_results_for_prompt: a card for each stored result of the prompt
_load_results_for_prompt(d, cards, prompt_id) ==
    LET results == get_results_for_prompt(d, prompt_id).ret.value
        order == Ascending(Ids(results))
        row(k) == CHOOSE r \in results : r.id = order[k]
    IN  _clear_results(cards)
           \o [k \in 1..Len(order) |-> Card(row(k).model_id, row(k).id, row(k).is_selected, "shown")]

\* the user picks another item of the history list: a stored prompt, or
\* (prompt_id = 0) the item for a new prompt
OnHistorySelected(prompt_id) ==
    /\ ~ui.crashed /\ ~dialog.open
    /\ ui.selects < MaxSelects
    /\ prompt_id \in Ids(db.prompts) \cup {0}
    /\ prompt_id # ui.combo
    /\ ui' = IF prompt_id # 0
             THEN [ui EXCEPT !.combo = prompt_id, !.selects = @ + 1,
                             !.current_prompt_id = prompt_id,
                             !.cards = _load_results_for_prompt(db, @, prompt_id)]
             ELSE [ui EXCEPT !.combo = prompt_id, !.selects = @ + 1,
                             !.current_prompt_id = 0,
                             !.cards = _clear_results(@)]
    /\ UNCHANGED << netvars, db, db_log, dialog >>

\* The cards are told apart by their position in ui.cards.  A destroyed card
\* that no worker's model_cards holds can never be reached again and is
\* taken out of the sequence, the positions held by the workers following.
Forget(u) ==
    LET held == {c \in 1..Len(u.cards) :
                    \/ u.cards[c] # Destroyed
                    \/ \E w \in 1..Len(u.workers) :
                          \E m \in DOMAIN u.workers[w].model_cards :
                             u.workers[w].model_cards[m] = c}
        at(c) == Cardinality({k \in held : k <= c})
    IN  [u EXCEPT !.cards = [i \in 1..Cardinality(held) |->
                                u.cards[CHOOSE c \in held : at(c) = i]],
                  !.workers = [w \in 1..Len(u.workers) |->
                                [u.workers[w] EXCEPT !.model_cards =
                                    [m \in DOMAIN @ |-> at(@[m])]]]]

\* the event loop of the window destroys the widgets given to deleteLater
DeferredDelete ==
    /\ ~ui.crashed /\ ~dialog.open
    /\ \E c \in 1..Len(ui.cards) : ui.cards[c].state = "delete_later"
    /\ ui' = Forget([ui EXCEPT !.cards =
                 [c \in 1..Len(@) |-> IF @[c].state = "delete_later" THEN Destroyed ELSE @[c]]])
    /\ UNCHANGED << netvars, db, db_log, dialog >>

\* the user toggles the favorite checkbox of a card on screen:
\* ResultCard._on_selection_changed and _on_result_selection_changed
ToggleFavorite(c) ==
    /\ ~ui.crashed /\ ~dialog.open
    /\ ui.toggles < MaxToggles
    /\ c \in 1..Len(ui.cards)
    /\ ui.cards[c].state = "shown"
    /\ LET is_selected == ~ui.cards[c].is_selected
       IN  /\ ui' = [ui EXCEPT !.cards[c].is_selected = is_selected, !.toggles = @ + 1]
           /\ db' = IF ui.cards[c].result_id # 0
                    THEN update_result_selection(db, ui.cards[c].result_id, is_selected).db
                    ELSE db
    /\ UNCHANGED << netvars, db_log, dialog >>

\* the main window on a database with two of the seeded models
InitUi ==
    /\ NetworkIdle
    /\ db = SeededDb(2)
    /\ db_log = <<>>
    /\ ui = MainWindow(SeededDb(2))
    /\ dialog = NoDialog

NextUi ==
    \/ OnSendClicked("a", ui.checkboxes)
    \/ \E w \in 1..Len(ui.workers) : APIWorkerRun(w)
    \/ \E w \in 1..Len(ui.workers) : OnApiFinished(w)
    \/ \E w \in 1..Len(ui.workers) : OnApiError(w)
    \/ \E prompt_id \in Ids(db.prompts) \cup {0} : OnHistorySelected(prompt_id)
    \/ DeferredDelete
    \/ \E c \in 1..Len(ui.cards) : ToggleFavorite(c)
    \/ ~ui.crashed /\ OpenSettings
    \/ \E k \in 0..1 : ~ui.crashed /\ dialog.clicks = 0 /\ ClickDelete(k, TRUE)
    \/ ~ui.crashed /\ CloseSettings

SpecUi == InitUi /\ [][NextUi]_vars

\* the worker thread runs, and the event loop delivers what is queued
FairUi ==
    /\ SpecUi
    /\ \A w \in 1..MaxSends :
         WF_vars(APIWorkerRun(w)) /\ WF_vars(OnApiFinished(w)) /\ WF_vars(OnApiError(w))
    /\ WF_vars(DeferredDelete)

(***************************************************************************)
(* C24: at most one fan-out is in flight                                   *)
(***************************************************************************)
InFlight(worker) == worker.state \in {"running", "finished", "error"}

\* C24: at most one APIWorker is in flight at any time; the send button is
\* disabled from the start of a worker until its finished or error handler
\* has run; each run emits exactly one of finished and error; no second
\* worker is started while one is running.
C24_OneFanOutInFlight ==
    /\ Cardinality({w \in 1..Len(ui.workers) : InFlight(ui.workers[w])}) <= 1
    /\ \A w \in 1..Len(ui.workers) :
         LET worker == ui.workers[w]
         IN  /\ InFlight(worker) => ~ui.send_enabled
             /\ InFlight(worker) => \A v \in 1..Len(ui.workers) : v > w => FALSE
             /\ worker.finished_emits + worker.error_emits
                   = (IF worker.state = "running" THEN 0 ELSE 1)
             /\ worker.state = "finished" => worker.finished_emits = 1
             /\ worker.state = "error" => worker.error_emits = 1

\* a second worker runs after the first was handled and the button enabled
C24_Witness ==
    /\ Len(ui.workers) = 2
    /\ ui.workers[1].state = "handled" /\ ui.workers[1].finished_emits = 1
    /\ ui.workers[2].state = "running"
    /\ ~ui.send_enabled

(***************************************************************************)
(* C25: the send button is enabled again after every send                  *)
(***************************************************************************)
\* C25: after every send that started an APIWorker the send button is
\* eventually enabled again, whatever user actions are interleaved while the
\* requests are in flight and whatever the outcomes are.
C25_Original == [](~ui.send_enabled => <>ui.send_enabled)

(***************************************************************************)
(* C26: one stored result per success, under the prompt of the send        *)
(***************************************************************************)
\* C26: when a fan-out finishes, _on_api_finished stores exactly one result
\* row for each model whose outcome is a success and none for a failed one,
\* and every row it stores carries the id of the prompt submitted with that
\* send, also when the user has selected another prompt in the meantime.
C26_Original ==
    [][\A w \in 1..Len(ui.workers) :
          (ui.workers[w].state = "finished" /\ ui'.workers[w].state # "finished")
             => LET worker == ui.workers[w]
                    stored == db'.results \ db.results
                IN  /\ \A m \in worker.selected :
                         Cardinality({r \in stored : r.model_id = m})
                            = (IF worker.results[m] THEN 1 ELSE 0)
                    /\ \A r \in stored :
                         r.prompt_id = worker.prompt_id /\ r.model_id \in worker.selected
      ]_vars

(***************************************************************************)
(* C27: the favorite flag of a card is the stored is_selected              *)
(***************************************************************************)
\* C27: for every result card on screen that has a stored result id, the
\* favorite flag shown on the card equals the is_selected value stored for
\* that result, after any sequence of sends, completions and toggles.
C27_Original ==
    \A c \in 1..Len(ui.cards) :
       (ui.cards[c].state = "shown" /\ ui.cards[c].result_id # 0)
          => \A r \in db.results :
                r.id = ui.cards[c].result_id => r.is_selected = ui.cards[c].is_selected

====
